---- MODULE Spec2Model ----
(***************************************************************************)
(* NovaScript: lexer, parser with scope table, semantic analyzer and       *)
(* tree-walking interpreter.                                               *)
(*                                                                         *)
(* Three specifications share this module:                                 *)
(*   SpecLexer   the lexer pulled token by token over a source text        *)
(*   SpecParser  the parser consuming a program production by production,  *)
(*               with its scope table                                      *)
(*   Spec        the stages run one after the other over a program:        *)
(*               parse, analyze, interpret                                 *)
(*                                                                         *)
(* Text is modelled as a sequence of one-character strings, so that the    *)
(* conversions between text and numbers are computed, not assumed.         *)
(* C++ vectors are sequences: the C++ element scopes[i] is scopes[i + 1].  *)
(***************************************************************************)
EXTENDS Integers, Sequences, FiniteSets, TLC

VARIABLES
    source,        \* Lexer::source, the text being lexed
    lexer,         \* the Lexer's fields
    tokens,        \* the tokens returned so far (the vector filled by main)
    symbolTable,   \* Parser::symbolTable, later handed to the semantic analyzer
    parseStatus,   \* "idle", "parsing", "failed" (ParserError thrown), "done"
    blocks,        \* the productions that are open, outermost first
    lastStmt,      \* what the production parsed last did
    program,       \* the Program parse() returned: the tree the later stages work on
    input,         \* the program the stages are run over
    stage,         \* how far the stages have come, and the error that stopped them
    interp         \* the Interpreter: its Environment, its output, its position

lexVars   == <<source, lexer, tokens>>
parseVars == <<symbolTable, parseStatus, blocks, lastStmt, program>>
runVars   == <<input, stage, interp>>
vars      == <<source, lexer, tokens, symbolTable, parseStatus, blocks,
               lastStmt, program, input, stage, interp>>

-----------------------------------------------------------------------------
(* Bounds of the model *)

\* the scope table of the production-by-production parser holds at most
\* this many scopes (enterScope is called at most MaxScopes - 1 times)
MaxScopes == 3

\* identifiers of the programs given to the production-by-production parser
Names == {"x", "f"}

\* the source texts given to the lexer have at most MaxLines lines, each
\* indented by at most MaxIndent spaces
MaxLines == 4
MaxIndent == 2

\* the literals of the programs run through the stages are the integers
\* from -MaxInt to MaxInt
MaxInt == 3

\* the interpreter is followed for at most MaxSteps executed statements
MaxSteps == 12

-----------------------------------------------------------------------------
(* Type.h, SymbolTable.h, SymbolTable.cpp *)

Type == {"NONE", "INTEGER", "STRING", "LIST", "DICT", "FUNCTION", "ERROR"}

\* Symbol(Token n, Type t, bool l, vector<Token> p): returnType starts NONE
Symbol(t, p) == [type |-> t, parameters |-> p, returnType |-> "NONE"]

\* SymbolTable(): one scope, the global one, and currentScope = 0
NewSymbolTable == [scopes |-> << << >> >>, currentScope |-> 0]

\* scopes[currentScope]
CurrentScopeOf(t) == t.scopes[t.currentScope + 1]

\* enterScope: a scope is appended to the END of the vector and currentScope
\* is incremented; exitScope never removes a scope, so the scope made
\* current is scopes[currentScope], not necessarily the appended one
enterScope(t) ==
    [t EXCEPT !.scopes = Append(@, << >>), !.currentScope = @ + 1]

\* exitScope throws when the current scope is the global one
exitScopeThrows(t) == t.currentScope = 0

\* exitScope without its test of currentScope
exitScopeUnchecked(t) == [t EXCEPT !.currentScope = @ - 1]

\* exitScope: step back to the parent scope, keep the scope in the vector
exitScope(t) ==
    IF t.currentScope > 0 THEN [t EXCEPT !.currentScope = @ - 1] ELSE t

\* addSymbol(name, Type, isLong, params): map::emplace keeps an entry that
\* is already there
addSymbol(t, name, type, params) ==
    [t EXCEPT !.scopes[t.currentScope + 1] =
        IF name \in DOMAIN @ THEN @ ELSE (name :> Symbol(type, params)) @@ @]

\* the Type that addSymbol(name, Token typeHint, ...) derives from the hint
TypeOfHint(hint) ==
    CASE hint = "INTEGER"  -> "INTEGER"
      [] hint = "STRING"   -> "STRING"
      [] hint = "FUNCTION" -> "FUNCTION"
      [] OTHER             -> "NONE"

\* addSymbol(name, Token typeHint, isLong, params)
addSymbolHint(t, name, hint, params) ==
    addSymbol(t, name, TypeOfHint(hint), params)

\* History of the bodies a pass goes through, kept beside the table when
\* the table has the fields nesting and bodies: nesting counts the block
\* bodies the pass is inside of, and bodies records, for each body begun,
\* its nesting and the depth of the current scope at its first statement.
\* The table of the program has no such fields, and then nothing is kept.
BodiesLogged(t) == "bodies" \in DOMAIN t
EnterBody(t) ==
    IF BodiesLogged(t)
    THEN [t EXCEPT !.nesting = @ + 1,
                   !.bodies = Append(@, [nesting |-> t.nesting + 1,
                                         depth |-> t.currentScope])]
    ELSE t
LeaveBody(t) == IF BodiesLogged(t) THEN [t EXCEPT !.nesting = @ - 1] ELSE t
LeftBody(r) == [r EXCEPT !.st = LeaveBody(@)]

\* the C++ indices of the scopes searched from currentScope down to 0 that
\* hold the name
ActiveHolders(t, name) ==
    {i \in 0 .. t.currentScope : name \in DOMAIN t.scopes[i + 1]}

Max(S) == CHOOSE m \in S : \A k \in S : k <= m
Min(S) == CHOOSE m \in S : \A k \in S : m <= k

\* symbolExists: search from currentScope down to the global scope
symbolExists(t, name) == ActiveHolders(t, name) # {}

\* symbolExistsInCurrentScope
symbolExistsInCurrentScope(t, name) == name \in DOMAIN CurrentScopeOf(t)

\* getSymbol throws "Symbol not found" when no searched scope has the name
getSymbolThrows(t, name) == ActiveHolders(t, name) = {}

\* getSymbol: the entry of the first scope, searching downward, with the name
getSymbol(t, name) == t.scopes[Max(ActiveHolders(t, name)) + 1][name]

\* updateSymbolType throws when no searched scope has the name
updateSymbolTypeThrows(t, name) == ActiveHolders(t, name) = {}

\* updateSymbolType: set the type of the entry getSymbol would return
updateSymbolType(t, name, type) ==
    [t EXCEPT !.scopes[Max(ActiveHolders(t, name)) + 1][name].type = type]

\* the C++ indices of ALL scopes of the vector that hold the name
AllHolders(t, name) ==
    {i \in 0 .. Len(t.scopes) - 1 : name \in DOMAIN t.scopes[i + 1]}

\* updateSymbolReturnType throws when no scope of the vector has the name
updateSymbolReturnTypeThrows(t, name) == AllHolders(t, name) = {}

\* updateSymbolReturnType: search from index 0 UPWARD over the whole vector
updateSymbolReturnType(t, name, type) ==
    [t EXCEPT !.scopes[Min(AllHolders(t, name)) + 1][name].returnType = type]

-----------------------------------------------------------------------------
(* Lexer.h, lexer.cpp *)

\* static const size_t MAX_TOKEN_LENGTH
MAX_TOKEN_LENGTH == 256

\* what peek() and advance() return at the end of the text
NUL == "NUL"

Digits == {"0", "1", "2", "3", "4", "5", "6", "7", "8", "9"}
Letters ==
    {"a", "b", "c", "d", "e", "f", "g", "h", "i", "j", "k", "l", "m", "n",
     "o", "p", "q", "r", "s", "t", "u", "v", "w", "x", "y", "z",
     "A", "B", "C", "D", "E", "F", "G", "H", "I", "J", "K", "L", "M", "N",
     "O", "P", "Q", "R", "S", "T", "U", "V", "W", "X", "Y", "Z"}

isAlpha(c) == c \in Letters \/ c = "_"
isDigit(c) == c \in Digits
isAlphaNumeric(c) == isAlpha(c) \/ isDigit(c)

\* the text of a sequence of characters as one string
RECURSIVE Str(_)
Str(cs) == IF cs = << >> THEN "" ELSE Head(cs) \o Str(Tail(cs))

\* static const unordered_map<string, TokenType> keywords
keywords ==
    ("let" :> "LET") @@ ("set" :> "SET") @@ ("be" :> "BE") @@ ("as" :> "AS") @@
    ("say" :> "SAY") @@ ("when" :> "WHEN") @@ ("then" :> "THEN") @@
    ("otherwise" :> "OTHERWISE") @@ ("match" :> "MATCH") @@ ("case" :> "CASE") @@
    ("repeat" :> "REPEAT") @@ ("while" :> "WHILE") @@ ("for" :> "FOR") @@
    ("from" :> "FROM") @@ ("to" :> "TO") @@ ("until" :> "UNTIL") @@
    ("step" :> "STEP") @@ ("starting" :> "STARTING") @@ ("in" :> "IN") @@
    ("at" :> "AT") @@ ("define" :> "DEFINE") @@ ("function" :> "FUNCTION") @@
    ("call" :> "CALL") @@ ("return" :> "RETURN") @@ ("throw" :> "THROW") @@
    ("end" :> "END") @@ ("increase" :> "INCREASE") @@ ("by" :> "BY") @@
    ("with" :> "WITH") @@ ("create" :> "CREATE") @@ ("model" :> "MODEL") @@
    ("try" :> "TRY") @@ ("catch" :> "CATCH") @@ ("open" :> "OPEN") @@
    ("file" :> "FILE") @@ ("block" :> "BLOCK") @@ ("Integer" :> "INTEGER") @@
    ("long" :> "LONG")

\* static const unordered_map<char, TokenType> singleCharTokens
singleCharTokens ==
    ("+" :> "PLUS") @@ ("-" :> "MINUS") @@ ("*" :> "STAR") @@ ("/" :> "SLASH") @@
    ("=" :> "EQUAL") @@ ("(" :> "LEFT_PAREN") @@ (")" :> "RIGHT_PAREN") @@
    ("{" :> "LEFT_BRACE") @@ ("}" :> "RIGHT_BRACE") @@
    ("[" :> "LEFT_BRACKET") @@ ("]" :> "RIGHT_BRACKET") @@
    (";" :> "SEMICOLON") @@ ("," :> "COMMA") @@ (":" :> "COLON")

Token(type, lexeme, line) == [type |-> type, lexeme |-> lexeme, line |-> line]

\* Lexer(source): current = 0, line = 1, indent_stack = [0]
NewLexer ==
    [current |-> 0, line |-> 1, indent_level |-> 0, indent_stack |-> <<0>>,
     pendingDedents |-> 0, previousToken |-> Token("UNKNOWN", << >>, 1),
     undefined |-> FALSE, crashed |-> FALSE]

isAtEnd(L) == L.current >= Len(source)
peek(L) == IF isAtEnd(L) THEN NUL ELSE source[L.current + 1]
peekNext(L) == IF L.current + 1 < Len(source) THEN source[L.current + 2] ELSE NUL

\* the position where a loop 'while (peek() in S) advance()' started at
\* position cur stops
SkipWhile(cur, S) ==
    Min({k \in cur .. Len(source) :
            IF k = Len(source) THEN TRUE ELSE source[k + 1] \notin S})

\* the position where 'while (!isAtEnd() && peek() != '\n') advance()'
\* started at position cur stops
LineEnd(cur) ==
    Min({k \in cur .. Len(source) :
            IF k = Len(source) THEN TRUE ELSE source[k + 1] = "\n"})

\* the number of newlines in the text between two positions
NewlinesIn(from, to) == Cardinality({k \in from + 1 .. to : source[k] = "\n"})

\* a token is returned: previousToken = token; return token
Emit(L, tok) == [lexer |-> [L EXCEPT !.previousToken = tok], token |-> tok]

\* identifier(): the run of letters, digits and underscores; a run of more
\* than MAX_TOKEN_LENGTH characters is cut there and returned as UNKNOWN with
\* the text from one character before its start (substr throws when the
\* run starts the text)
identifier(L) ==
    LET stop == SkipWhile(L.current, Letters \cup Digits \cup {"_"})
        long == stop - L.current > MAX_TOKEN_LENGTH
        cut  == L.current + MAX_TOKEN_LENGTH
        value == SubSeq(source, L.current + 1, stop)
    IN  IF long /\ L.current = 0
        THEN Emit([L EXCEPT !.current = cut, !.crashed = TRUE],
                  Token("UNKNOWN", << >>, L.line))
        ELSE IF long
        THEN Emit([L EXCEPT !.current = cut],
                  Token("UNKNOWN", SubSeq(source, L.current, cut), L.line))
        ELSE Emit([L EXCEPT !.current = stop],
                  Token(IF Str(value) \in DOMAIN keywords
                        THEN keywords[Str(value)] ELSE "IDENTIFIER",
                        value, L.line))

\* number(): digits with at most one '.', then an optional 'L'
number(L) ==
    LET first == SkipWhile(L.current, Digits)
        afterDot == IF first < Len(source) /\ source[first + 1] = "."
                    THEN SkipWhile(first + 1, Digits) ELSE first
        stop == IF afterDot < Len(source) /\ source[afterDot + 1] = "L"
                THEN afterDot + 1 ELSE afterDot
    IN  Emit([L EXCEPT !.current = stop],
             Token("NUMBER", SubSeq(source, L.current + 1, stop), L.line))

\* stringLiteral(): the text up to the matching quote; at the end of the
\* text without one, UNKNOWN
stringLiteral(L) ==
    LET quote == source[L.current + 1]
        close == Min({k \in L.current + 1 .. Len(source) :
                        IF k = Len(source) THEN TRUE ELSE source[k + 1] = quote})
        value == SubSeq(source, L.current + 2, close)
        line  == L.line + NewlinesIn(L.current + 1, close)
    IN  IF close = Len(source)
        THEN Emit([L EXCEPT !.current = close, !.line = line],
                  Token("UNKNOWN", value, line))
        ELSE Emit([L EXCEPT !.current = close + 1, !.line = line],
                  Token("STRING", value, line))

\* indent_stack.back(); on an empty vector the read is undefined and
\* yields some value v
Back(L, v) ==
    IF L.indent_stack = << >> THEN v ELSE L.indent_stack[Len(L.indent_stack)]

\* indent_stack.pop_back(); indent_level--; on an empty vector the pop is
\* undefined
PopIndent(L) ==
    IF L.indent_stack = << >>
    THEN [L EXCEPT !.indent_level = @ - 1, !.undefined = TRUE]
    ELSE [L EXCEPT !.indent_level = @ - 1,
                   !.indent_stack = SubSeq(@, 1, Len(@) - 1)]

\* indent_stack.push_back(n); indent_level++
PushIndent(L, n) ==
    [L EXCEPT !.indent_stack = Append(@, n), !.indent_level = @ + 1]

\* while (indent_count < indent_stack.back() && indent_stack.size() > 1)
\*     { pop_back(); indent_level--; pendingDedents++; }
RECURSIVE popDeeperLevels(_, _, _)
popDeeperLevels(L, indent_count, v) ==
    IF indent_count < Back(L, v) /\ Len(L.indent_stack) > 1
    THEN popDeeperLevels([PopIndent(L) EXCEPT !.pendingDedents = @ + 1],
                         indent_count, v)
    ELSE [L EXCEPT !.undefined = @ \/ L.indent_stack = << >>]

\* the position after a block comment opened at cur (its '/' is at cur):
\* just after the closing star-slash, or -1 when the comment never closes
CommentClose(cur) ==
    LET ends == {k \in cur + 2 .. Len(source) - 2 :
                    source[k + 1] = "*" /\ source[k + 2] = "/"}
    IN  IF ends = {} THEN -1 ELSE Min(ends) + 2

\* getNextToken(); v is what a read of back() on an empty indent stack
\* yields
RECURSIVE getNextToken(_, _)
getNextToken(L0, v) ==
    IF L0.pendingDedents > 0
    THEN \* a pending dedent: the stack is popped (again) and DEDENT returned
         Emit(PopIndent([L0 EXCEPT !.pendingDedents = @ - 1]),
              Token("DEDENT", << >>, L0.line))
    ELSE
    LET L == [L0 EXCEPT !.current = SkipWhile(@, {" ", "\t", "\r"})]
        c == peek(L)
    IN
    IF isAtEnd(L)
    THEN IF Len(L.indent_stack) > 1 /\ Back(L, v) # 0
         THEN Emit(PopIndent(L), Token("DEDENT", << >>, L.line))
         ELSE Emit(L, Token("END_OF_FILE", << >>, L.line))
    ELSE IF c = "\n"
    THEN LET new_indent == L.current + 1
             stop == SkipWhile(new_indent, {" ", "\t"})
             next == IF stop >= Len(source) THEN NUL ELSE source[stop + 1]
             indent_count == stop - new_indent
             N == [L EXCEPT !.current = new_indent, !.line = @ + 1]
             U == [N EXCEPT !.undefined = @ \/ N.indent_stack = << >>]
         IN  IF next = "\n" \/ next = "#" \/ next = NUL
             THEN getNextToken(N, v)
             ELSE IF indent_count > Back(N, v)
             THEN Emit(PushIndent(U, indent_count), Token("INDENT", << >>, N.line))
             ELSE IF indent_count < Back(N, v)
             THEN Emit(popDeeperLevels(
                           [PopIndent(U) EXCEPT !.pendingDedents = 0],
                           indent_count, v),
                       Token("DEDENT", << >>, N.line))
             ELSE IF /\ N.indent_stack # << >>
                     /\ indent_count > 0
                     /\ N.previousToken.type \in {"CATCH", "THEN"}
             THEN Emit(PushIndent(U, indent_count), Token("INDENT", << >>, N.line))
             ELSE getNextToken(U, v)
    ELSE IF c = "/" /\ peekNext(L) = "*"
    THEN LET close == CommentClose(L.current) IN
         IF close = -1
         THEN LET line == L.line + NewlinesIn(L.current + 2, Len(source)) IN
              Emit([L EXCEPT !.current = Len(source), !.line = line],
                   Token("UNKNOWN", << >>, line))
         ELSE getNextToken(
                  [L EXCEPT !.current = close,
                            !.line = @ + NewlinesIn(L.current + 2, close - 2)], v)
    ELSE IF c = "#"
    THEN getNextToken([L EXCEPT !.current = LineEnd(@)], v)
    ELSE IF c = "\"" \/ c = "'" THEN stringLiteral(L)
    ELSE IF isDigit(c) THEN number(L)
    ELSE IF isAlpha(c) THEN identifier(L)
    ELSE IF c \in DOMAIN singleCharTokens
    THEN Emit([L EXCEPT !.current = @ + 1],
              Token(singleCharTokens[c], <<c>>, L.line))
    ELSE IF c = ">" /\ peekNext(L) = "="
    THEN Emit([L EXCEPT !.current = @ + 2], Token("GREATER_EQUAL", <<">", "=">>, L.line))
    ELSE IF c = "<" /\ peekNext(L) = "="
    THEN Emit([L EXCEPT !.current = @ + 2], Token("LESS_EQUAL", <<"<", "=">>, L.line))
    ELSE IF c = "!" /\ peekNext(L) = "="
    THEN Emit([L EXCEPT !.current = @ + 2], Token("NOT_EQUAL", <<"!", "=">>, L.line))
    ELSE IF c = ">"
    THEN Emit([L EXCEPT !.current = @ + 1], Token("GREATER", <<">">>, L.line))
    ELSE IF c = "<"
    THEN Emit([L EXCEPT !.current = @ + 1], Token("LESS", <<"<">>, L.line))
    ELSE Emit([L EXCEPT !.current = @ + 1], Token("UNKNOWN", <<c>>, L.line))

-----------------------------------------------------------------------------
(* AST.h: the nodes.  A program is given to the parser as the tree its     *)
(* tokens spell; Call nodes keep which of the two call forms was written.  *)

NoExpr == [kind |-> "None"]
\* every Expr has Type inferredType = Type::NONE
LiteralExpr(type, lexeme) ==
    [kind |-> "Literal", type |-> type, lexeme |-> lexeme, inferredType |-> "NONE"]
VariableExpr(name) == [kind |-> "Variable", name |-> name, inferredType |-> "NONE"]
BinaryExpr(left, op, right) ==
    [kind |-> "Binary", op |-> op, left |-> left, right |-> right,
     inferredType |-> "NONE"]
ParenExpr(e) == [kind |-> "Paren", expr |-> e, inferredType |-> "NONE"]
\* form "paren" is NAME(args), form "keyword" is call NAME(args)
CallExpr(form, name, args) ==
    [kind |-> "Call", form |-> form, name |-> name, arguments |-> args,
     inferredType |-> "NONE"]

\* asType is the type hint; Type declaredType = Type::NONE
VarDeclStmt(name, init, hint) ==
    [kind |-> "VarDecl", name |-> name, init |-> init, asType |-> hint,
     declaredType |-> "NONE"]
SetStmt(name, value) == [kind |-> "Set", name |-> name, value |-> value]
SayStmt(e) == [kind |-> "Say", expr |-> e]
Branch(cond, body) == [condition |-> cond, body |-> body]
WhenStmt(branches) == [kind |-> "When", branches |-> branches]
WhileStmt(cond, body) == [kind |-> "While", condition |-> cond, body |-> body]
ForStmt(it, start, end, step, body) ==
    [kind |-> "For", iterator |-> it, start |-> start, end |-> end,
     step |-> step, body |-> body]
FunctionDefStmt(name, params, body) ==
    [kind |-> "FunctionDef", name |-> name, parameters |-> params, body |-> body]
CallStmt(name, args) == [kind |-> "CallStmt", name |-> name, arguments |-> args]
\* Type returnType = Type::NONE
ReturnStmt(value) == [kind |-> "Return", value |-> value, returnType |-> "NONE"]

------------------------------------------------------------------------\* ListLiteralExpr: the elements
ListLiteralExpr(elements) ==
    [kind |-> "ListLiteral", elements |-> elements, inferredType |-> "NONE"]

\* DictLiteralExpr: the entries, each a pair <<key, value>>
DictLiteralExpr(entries) ==
    [kind |-> "DictLiteral", entries |-> entries, inferredType |-> "NONE"]

\* IndexExpr: base[index]
IndexExpr(base, index) ==
    [kind |-> "Index", base |-> base, index |-> index, inferredType |-> "NONE"]

\* IndexAssignStmt: the target, an IndexExpr, and the value
IndexAssignStmt(target, value) ==
    [kind |-> "IndexAssign", target |-> target, value |-> value]

\* ThrowStmt: the expression thrown
ThrowStmt(e) == [kind |-> "Throw", expr |-> e]

\* TryCatchStmt: the try body, the exception variable, the catch body
TryCatchStmt(tryBody, exceptionVar, catchBody) ==
    [kind |-> "TryCatch", tryBody |-> tryBody, exceptionVar |-> exceptionVar,
     catchBody |-> catchBody]

\* MatchStmt: the condition and the cases, each a pattern and a body
Case(pattern, body) == [pattern |-> pattern, body |-> body]
MatchStmt(cond, cases) == [kind |-> "Match", condition |-> cond, cases |-> cases]

-----
(* Parser.cpp: the productions.  A production yields the scope table it    *)
(* leaves, whether it threw a ParserError, the references it looked at     *)
(* (refs) and the declaration it made or refused (decl).                   *)

NoDecl == [kind |-> "none", name |-> "", inCurrent |-> FALSE, rejected |-> FALSE]

\* one name the parser met in reference position: did the scope table
\* resolve it at that moment, and did the parser accept it
Ref(form, name, t, accepted) ==
    [form |-> form, name |-> name, resolved |-> symbolExists(t, name),
     accepted |-> accepted]

ExprOk(refs) == [ok |-> TRUE, err |-> "", refs |-> refs]
ExprFail(err, refs) == [ok |-> FALSE, err |-> err, refs |-> refs]

RECURSIVE parseExpr(_, _)
RECURSIVE parseArguments(_, _)

\* the do { arguments.push_back(parseExpr()); } while (match(COMMA)) loops
parseArguments(t, args) ==
    IF args = << >> THEN ExprOk(<< >>)
    ELSE LET first == parseExpr(t, Head(args)) IN
         IF ~first.ok THEN first
         ELSE LET rest == parseArguments(t, Tail(args)) IN
              [rest EXCEPT !.refs = first.refs \o @]

\* parsePrimary, the keyword form of a call: the name is taken as it is
parsePrimaryCallKeyword(t, e) ==
    LET args == parseArguments(t, e.arguments) IN
    [args EXCEPT !.refs = <<Ref("call-keyword", e.name, t, TRUE)>> \o @]

\* parsePrimary, IDENTIFIER followed by '(': the name must resolve to a
\* function
parsePrimaryCallParen(t, e) ==
    IF ~symbolExists(t, e.name)
    THEN ExprFail("not declared", <<Ref("call-paren", e.name, t, FALSE)>>)
    ELSE IF getSymbol(t, e.name).type # "FUNCTION"
    THEN ExprFail("is not a function", <<Ref("call-paren", e.name, t, FALSE)>>)
    ELSE LET args == parseArguments(t, e.arguments) IN
         [args EXCEPT !.refs = <<Ref("call-paren", e.name, t, TRUE)>> \o @]

\* parsePrimary, IDENTIFIER alone: the name must resolve
parsePrimaryVariable(t, e) ==
    IF ~symbolExists(t, e.name)
    THEN ExprFail("not declared", <<Ref("variable", e.name, t, FALSE)>>)
    ELSE ExprOk(<<Ref("variable", e.name, t, TRUE)>>)

\* the keys and values of a dictionary literal in the order they are parsed
KeysAndValues(entries) ==
    [k \in 1 .. 2 * Len(entries) |-> entries[(k + 1) \div 2][2 - (k % 2)]]

\* parsePrimary, IDENTIFIER followed by '[': the name must resolve, then
\* parseIndexExpr parses the index
parsePrimaryIndex(t, e) ==
    LET base == parsePrimaryVariable(t, e.base) IN
    IF ~base.ok THEN base
    ELSE LET index == parseExpr(t, e.index) IN
         [index EXCEPT !.refs = base.refs \o @]

\* parseExpr = parseBinaryExpr: primaries joined by operators, left first
parseExpr(t, e) ==
    CASE e.kind = "Literal"  -> ExprOk(<< >>)
      [] e.kind = "Variable" -> parsePrimaryVariable(t, e)
      [] e.kind = "Call" /\ e.form = "paren"   -> parsePrimaryCallParen(t, e)
      [] e.kind = "Call" /\ e.form = "keyword" -> parsePrimaryCallKeyword(t, e)
      [] e.kind = "Paren"    -> parseExpr(t, e.expr)
      [] e.kind = "ListLiteral" -> parseArguments(t, e.elements)
      [] e.kind = "DictLiteral" -> parseArguments(t, KeysAndValues(e.entries))
      [] e.kind = "Index"    -> parsePrimaryIndex(t, e)
      [] e.kind = "Binary"   ->
            LET l == parseExpr(t, e.left) IN
            IF ~l.ok THEN l
            ELSE LET r == parseExpr(t, e.right) IN
                 [r EXCEPT !.refs = l.refs \o @]
      [] e.kind = "None"     -> ExprOk(<< >>)

Parsed(t, refs, decl) ==
    [st |-> t, ok |-> TRUE, err |-> "", refs |-> refs, decl |-> decl]
ParseError(t, err, refs, decl) ==
    [st |-> t, ok |-> FALSE, err |-> err, refs |-> refs, decl |-> decl]

\* the expressions of a production, parsed one after the other in table t
parseExprs(t, es) == parseArguments(t, es)

\* the type hint parseVarDecl stores in the VarDeclStmt and registers:
\* the 'as' type when written, else the type of a literal initializer
typeHintOf(s) ==
    IF s.asType # "NONE" THEN s.asType
    ELSE IF s.init.kind = "Literal"
         THEN (IF s.init.type = "NUMBER" THEN "INTEGER" ELSE "STRING")
         ELSE "NONE"

Decl(kind, name, t, rejected) ==
    [kind |-> kind, name |-> name,
     inCurrent |-> symbolExistsInCurrentScope(t, name), rejected |-> rejected]

\* parseVarDecl
parseVarDecl(t, s) ==
    IF symbolExistsInCurrentScope(t, s.name)
    THEN ParseError(t, "already declared", << >>, Decl("let", s.name, t, TRUE))
    ELSE LET init == parseExpr(t, s.init) IN
         IF ~init.ok
         THEN ParseError(t, init.err, init.refs, NoDecl)
         ELSE Parsed(addSymbolHint(t, s.name, typeHintOf(s), << >>),
                     init.refs, Decl("let", s.name, t, FALSE))

\* parseSetStmt (regular assignment)
parseSetStmt(t, s) ==
    IF ~symbolExists(t, s.name)
    THEN ParseError(t, "not declared", <<Ref("set", s.name, t, FALSE)>>, NoDecl)
    ELSE LET value == parseExpr(t, s.value) IN
         [st |-> t, ok |-> value.ok, err |-> value.err,
          refs |-> <<Ref("set", s.name, t, TRUE)>> \o value.refs,
          decl |-> NoDecl]

\* parseSetStmt (index assignment): the name must resolve; the index, then
\* the value
parseIndexAssign(t, s) ==
    IF ~symbolExists(t, s.target.base.name)
    THEN ParseError(t, "not declared",
                    <<Ref("set", s.target.base.name, t, FALSE)>>, NoDecl)
    ELSE LET es == parseArguments(t, <<s.target.index, s.value>>) IN
         [st |-> t, ok |-> es.ok, err |-> es.err,
          refs |-> <<Ref("set", s.target.base.name, t, TRUE)>> \o es.refs,
          decl |-> NoDecl]

\* parseSayStmt
parseSayStmt(t, s) ==
    LET e == parseExpr(t, s.expr) IN
    [st |-> t, ok |-> e.ok, err |-> e.err, refs |-> e.refs, decl |-> NoDecl]

\* parseCallStmt
parseCallStmt(t, s) ==
    IF ~symbolExists(t, s.name)
    THEN ParseError(t, "not declared",
                    <<Ref("call-stmt", s.name, t, FALSE)>>, NoDecl)
    ELSE IF getSymbol(t, s.name).type # "FUNCTION"
    THEN ParseError(t, "is not a function",
                    <<Ref("call-stmt", s.name, t, FALSE)>>, NoDecl)
    ELSE LET args == parseArguments(t, s.arguments) IN
         [st |-> t, ok |-> args.ok, err |-> args.err,
          refs |-> <<Ref("call-stmt", s.name, t, TRUE)>> \o args.refs,
          decl |-> NoDecl]

\* parseReturnStmt
parseReturnStmt(t, s) ==
    LET e == parseExpr(t, s.value) IN
    [st |-> t, ok |-> e.ok, err |-> e.err, refs |-> e.refs, decl |-> NoDecl]

\* parseWhenStmt up to the body of a branch: the condition is parsed in
\* the outer scope, then the branch body gets its scope
parseWhenHead(t, cond) ==
    LET c == parseExpr(t, cond) IN
    IF ~c.ok THEN ParseError(t, c.err, c.refs, NoDecl)
    ELSE Parsed(enterScope(t), c.refs, NoDecl)

\* parseWhileLoop up to the body: the scope is entered before the condition
parseWhileHead(t, cond) ==
    LET inner == enterScope(t)
        c == parseExpr(inner, cond) IN
    IF ~c.ok THEN ParseError(inner, c.err, c.refs, NoDecl)
    ELSE Parsed(inner, c.refs, NoDecl)

\* parseForLoop up to the body: scope, iterator as INTEGER, start, end, step
parseForHead(t, s) ==
    LET inner == addSymbolHint(enterScope(t), s.iterator, "INTEGER", << >>)
        es == parseExprs(inner, <<s.start, s.end, s.step>>) IN
    IF ~es.ok THEN ParseError(inner, es.err, es.refs, NoDecl)
    ELSE Parsed(inner, es.refs, NoDecl)

\* the parameters of a function registered one by one as INTEGER
RECURSIVE addParameters(_, _)
addParameters(t, params) ==
    IF params = << >> THEN t
    ELSE addParameters(addSymbol(t, Head(params), "INTEGER", << >>), Tail(params))

\* parseFunctionDef up to the body: the function is refused when ANY scope
\* from the current one outward has the name (symbolExists), then it is
\* registered in the enclosing scope and the body scope gets the parameters
parseFunctionDefHead(t, s) ==
    IF symbolExists(t, s.name)
    THEN ParseError(t, "already declared", << >>,
                    Decl("function", s.name, t, TRUE))
    ELSE Parsed(addParameters(
                    enterScope(addSymbol(t, s.name, "FUNCTION", s.parameters)),
                    s.parameters),
                << >>, Decl("function", s.name, t, FALSE))

\* the end of a block production: exitScope
parseBlockEnd(t) ==
    IF exitScopeThrows(t) THEN ParseError(t, "Cannot exit global scope", << >>, NoDecl)
    ELSE Parsed(exitScope(t), << >>, NoDecl)

-----------------------------------------------------------------------------
(* The parser consuming a program production by production (SpecParser).   *)
(* The program is whatever sequence of productions the token stream        *)
(* spells: each action is one production of Parser.cpp, a block            *)
(* production being split where it recurses into parseStmtList.            *)
(*                                                                         *)
(* blocks records, for each open block of the SOURCE TEXT, what the text   *)
(* declares in it; it is what the scope table is compared with.            *)
(*   declared  names the text declares in this block body so far           *)
(*   outer     names the scope table resolved just before the block        *)
(*   hidden    names declared only inside blocks nested in this one that   *)
(*             have ended, not resolvable before them, not declared here   *)

Frame(kind, declared, outer) ==
    [kind |-> kind, declared |-> declared, outer |-> outer, hidden |-> {}]

Resolvable(t) == {n \in Names : symbolExists(t, n)}

TopFrame == blocks[Len(blocks)]
LexVisible == UNION {blocks[k].declared : k \in 1 .. Len(blocks)}

Literal1 == LiteralExpr("NUMBER", <<"1">>)

\* the expressions the productions are tried with
ExprPool ==
    {Literal1} \cup {VariableExpr(n) : n \in Names}
               \cup {CallExpr("paren", n, << >>) : n \in Names}
               \cup {CallExpr("keyword", n, << >>) : n \in Names}

NoStmt ==
    [ok |-> TRUE, refs |-> {},
     decl |-> [kind |-> "none", inCurrent |-> FALSE, rejected |-> FALSE,
               local |-> FALSE]]

\* a reference the production looked at, with what the text says of the
\* name: visible = declared in an open block, hidden = declared only in
\* ended blocks nested in the current one
TextRef(r) ==
    [form |-> r.form, resolved |-> r.resolved, accepted |-> r.accepted,
     visible |-> r.name \in LexVisible, hidden |-> r.name \in TopFrame.hidden]

\* the declaration the production made or refused, with whether the text
\* has declared the name in the current block body (local)
TextDecl(d) ==
    [kind |-> d.kind, inCurrent |-> d.inCurrent, rejected |-> d.rejected,
     local |-> d.name \in TopFrame.declared]

\* what the production just parsed did
Record(pr) ==
    [ok |-> pr.ok,
     refs |-> {TextRef(pr.refs[k]) : k \in 1 .. Len(pr.refs)},
     decl |-> TextDecl(pr.decl)]

\* blocks with name n declared in the innermost block
Declare(bs, n) ==
    [bs EXCEPT ![Len(bs)].declared = @ \cup {n}, ![Len(bs)].hidden = @ \ {n}]

\* blocks after the innermost block has ended
CloseBlock(bs) ==
    LET top == bs[Len(bs)]
        rest == SubSeq(bs, 1, Len(bs) - 1) IN
    [rest EXCEPT ![Len(rest)].hidden =
        @ \cup ((top.declared \cup top.hidden) \ top.outer)]

\* a production ran: a ParserError ends parse(), success moves on
Step(pr, newBlocks) ==
    /\ symbolTable' = pr.st
    /\ parseStatus' = IF pr.ok THEN "parsing" ELSE "failed"
    /\ blocks' = IF pr.ok THEN newBlocks ELSE blocks
    /\ lastStmt' = Record(pr)
    /\ UNCHANGED <<lexVars, runVars, program>>

CanOpen == Len(symbolTable.scopes) < MaxScopes

StmtVarDecl ==
    /\ parseStatus = "parsing"
    /\ \E n \in Names, init \in ExprPool :
         LET pr == parseVarDecl(symbolTable, VarDeclStmt(n, init, "INTEGER")) IN
         Step(pr, Declare(blocks, n))

StmtSet ==
    /\ parseStatus = "parsing"
    /\ \E n \in Names, value \in ExprPool :
         Step(parseSetStmt(symbolTable, SetStmt(n, value)), blocks)

StmtSay ==
    /\ parseStatus = "parsing"
    /\ \E e \in ExprPool :
         Step(parseSayStmt(symbolTable, SayStmt(e)), blocks)

StmtCall ==
    /\ parseStatus = "parsing"
    /\ \E n \in Names :
         Step(parseCallStmt(symbolTable, CallStmt(n, << >>)), blocks)

StmtReturn ==
    /\ parseStatus = "parsing"
    /\ \E e \in ExprPool \cup {NoExpr} :
         Step(parseReturnStmt(symbolTable, ReturnStmt(e)), blocks)

\* when COND then INDENT
WhenBegin ==
    /\ parseStatus = "parsing"
    /\ CanOpen
    /\ \E cond \in ExprPool :
         Step(parseWhenHead(symbolTable, cond),
              Append(blocks, Frame("when", {}, Resolvable(symbolTable))))

\* DEDENT otherwise when COND then INDENT: the branch before ends, the
\* condition is parsed in the outer scope, the next branch body begins
WhenOtherwiseWhen ==
    /\ parseStatus = "parsing"
    /\ TopFrame.kind = "when"
    /\ CanOpen
    /\ \E cond \in ExprPool :
         LET out == exitScope(symbolTable) IN
         Step(parseWhenHead(out, cond),
              Append(CloseBlock(blocks), Frame("when", {}, Resolvable(out))))

\* DEDENT otherwise INDENT
WhenOtherwise ==
    /\ parseStatus = "parsing"
    /\ TopFrame.kind = "when"
    /\ CanOpen
    /\ LET out == exitScope(symbolTable) IN
       Step(parseWhenHead(out, NoExpr),
            Append(CloseBlock(blocks), Frame("when", {}, Resolvable(out))))

\* repeat while COND INDENT
WhileBegin ==
    /\ parseStatus = "parsing"
    /\ CanOpen
    /\ \E cond \in ExprPool :
         Step(parseWhileHead(symbolTable, cond),
              Append(blocks, Frame("while", {}, Resolvable(symbolTable))))

\* repeat for NAME from START to END INDENT; parseWithLoop does the same
\* with the keywords of 'repeat with'.  START is a literal or mentions a
\* name other than the iterator.
ForBegin ==
    /\ parseStatus = "parsing"
    /\ CanOpen
    /\ \E it \in Names, start \in ExprPool :
         /\ IF start.kind = "Literal" THEN TRUE ELSE start.name # it
         /\ Step(parseForHead(symbolTable, ForStmt(it, start, Literal1, NoExpr, << >>)),
              Append(blocks, Frame("for", {it}, Resolvable(symbolTable))))

\* define function NAME(PARAMS) INDENT
FunctionDefBegin ==
    /\ parseStatus = "parsing"
    /\ CanOpen
    /\ \E n \in Names, params \in {<< >>, <<"x">>} :
         LET pr == parseFunctionDefHead(symbolTable,
                                        FunctionDefStmt(n, params, << >>)) IN
         Step(pr,
              Append(Declare(blocks, n),
                     Frame("function", {params[k] : k \in 1 .. Len(params)},
                           Resolvable(symbolTable) \cup {n})))

\* DEDENT end, closing a when, a loop or a function definition
BlockEnd ==
    /\ parseStatus = "parsing"
    /\ Len(blocks) > 1
    /\ Step(parseBlockEnd(symbolTable), CloseBlock(blocks))

\* END_OF_FILE: parseProgram returns the Program when no block is open,
\* a block production throws when its DEDENT or 'end' is missing
ProgramEnd ==
    /\ parseStatus = "parsing"
    /\ symbolTable' = symbolTable
    /\ parseStatus' = IF Len(blocks) = 1 THEN "done" ELSE "failed"
    /\ blocks' = blocks
    /\ lastStmt' = NoStmt
    /\ UNCHANGED <<lexVars, runVars, program>>

IdleLexer ==
    /\ source = << >>
    /\ lexer = [current |-> 0]
    /\ tokens = << >>

IdleParser ==
    /\ symbolTable = NewSymbolTable
    /\ parseStatus = "idle"
    /\ blocks = << >>
    /\ lastStmt = NoStmt
    /\ program = << >>

IdleRun ==
    /\ input = << >>
    /\ stage = [at |-> "idle", error |-> ""]
    /\ interp = [pc |-> 0]

InitParser ==
    /\ IdleLexer
    /\ IdleRun
    /\ symbolTable = NewSymbolTable
    /\ parseStatus = "parsing"
    /\ blocks = <<Frame("program", {}, {})>>
    /\ lastStmt = NoStmt
    /\ program = << >>

NextParser ==
    \/ StmtVarDecl
    \/ StmtSet
    \/ StmtSay
    \/ StmtCall
    \/ StmtReturn
    \/ WhenBegin
    \/ WhenOtherwiseWhen
    \/ WhenOtherwise
    \/ WhileBegin
    \/ ForBegin
    \/ FunctionDefBegin
    \/ BlockEnd
    \/ ProgramEnd

SpecParser == InitParser /\ [][NextParser]_vars

-----------------------------------------------------------------------------
(* Parser.cpp: the productions composed as the recursive descent composes  *)
(* them, over a whole program.                                             *)

RECURSIVE parseStmt(_, _)
RECURSIVE parseStmtList(_, _)
RECURSIVE parseBranches(_, _)
RECURSIVE parseCases(_, _)

\* parseStmtList: statements parsed one after the other; the first
\* ParserError ends the parse
parseStmtList(t, body) ==
    IF body = << >> THEN Parsed(t, << >>, NoDecl)
    ELSE LET first == parseStmt(t, Head(body)) IN
         IF ~first.ok THEN first ELSE parseStmtList(first.st, Tail(body))

\* a block production after its head: the body, then exitScope
parseBody(head, body) ==
    IF ~head.ok THEN head
    ELSE LET b == LeftBody(parseStmtList(EnterBody(head.st), body)) IN
         IF ~b.ok THEN b ELSE parseBlockEnd(b.st)

\* parseWhenStmt: every branch parses its condition (if it has one) in the
\* outer scope and its body in a scope of its own
parseBranches(t, branches) ==
    IF branches = << >> THEN Parsed(t, << >>, NoDecl)
    ELSE LET b == parseBody(parseWhenHead(t, Head(branches).condition),
                            Head(branches).body) IN
         IF ~b.ok THEN b ELSE parseBranches(b.st, Tail(branches))

\* parseStmt, THROW: the expression
parseThrowStmt(t, s) ==
    LET e == parseExpr(t, s.expr) IN
    [st |-> t, ok |-> e.ok, err |-> e.err, refs |-> e.refs, decl |-> NoDecl]

\* parseTryCatchStmt: one scope is entered for the whole statement; the
\* try body, then the exception variable registered as STRING in that
\* scope, the catch body, exitScope
parseTryCatchStmt(t, s) ==
    LET try == LeftBody(parseStmtList(EnterBody(enterScope(t)), s.tryBody)) IN
    IF ~try.ok THEN try
    ELSE parseBody(Parsed(addSymbolHint(try.st, s.exceptionVar, "STRING", << >>),
                          << >>, NoDecl),
                   s.catchBody)

\* parseMatchStmt's loop over the cases: the pattern, then the body, all
\* in the scope of the statement
parseCases(t, cases) ==
    IF cases = << >> THEN Parsed(t, << >>, NoDecl)
    ELSE LET p == parseExpr(t, Head(cases).pattern) IN
         IF ~p.ok THEN ParseError(t, p.err, p.refs, NoDecl)
         ELSE LET b == LeftBody(parseStmtList(EnterBody(t), Head(cases).body)) IN
              IF ~b.ok THEN b ELSE parseCases(b.st, Tail(cases))

\* parseMatchStmt: one scope is entered for the whole statement; the
\* condition, the cases (at least one), exitScope
parseMatchStmt(t, s) ==
    LET inner == enterScope(t)
        c == parseExpr(inner, s.condition) IN
    IF ~c.ok THEN ParseError(inner, c.err, c.refs, NoDecl)
    ELSE IF s.cases = << >>
    THEN ParseError(inner, "Expected at least one 'case' clause in 'match' statement",
                    << >>, NoDecl)
    ELSE LET cs == parseCases(inner, s.cases) IN
         IF ~cs.ok THEN cs ELSE parseBlockEnd(cs.st)

\* parseStmt: the production the statement's first keyword selects
parseStmt(t, s) ==
    CASE s.kind = "VarDecl"     -> parseVarDecl(t, s)
      [] s.kind = "Set"         -> parseSetStmt(t, s)
      [] s.kind = "Say"         -> parseSayStmt(t, s)
      [] s.kind = "CallStmt"    -> parseCallStmt(t, s)
      [] s.kind = "Return"      -> parseReturnStmt(t, s)
      [] s.kind = "When"        -> parseBranches(t, s.branches)
      [] s.kind = "While"       -> parseBody(parseWhileHead(t, s.condition), s.body)
      [] s.kind = "For"         -> parseBody(parseForHead(t, s), s.body)
      [] s.kind = "FunctionDef" -> parseBody(parseFunctionDefHead(t, s), s.body)
      [] s.kind = "Throw"       -> parseThrowStmt(t, s)
      [] s.kind = "IndexAssign" -> parseIndexAssign(t, s)
      [] s.kind = "TryCatch"    -> parseTryCatchStmt(t, s)
      [] s.kind = "Match"       -> parseMatchStmt(t, s)

\* Parser(tokens).parse(): parseProgram over a fresh scope table
parseProgram(statements) == parseStmtList(NewSymbolTable, statements)

-----------------------------------------------------------------------------
(* SemanticAnalyzer.cpp.  The analyzer works on the scope table the parser *)
(* leaves and writes type annotations into the nodes it is given.  A       *)
(* result is the table it leaves, the node as it leaves it and the         *)
(* exception thrown, if any: thrown = "SemanticError" or "runtime_error"   *)
(* (from the scope table)                                                  *)

\* what the analysis of a node yields: the scope table, the exception
\* thrown if any, the Type returned, and the node as the analysis left it
Analyzed(t, type, node) ==
    [st |-> t, thrown |-> "", error |-> "", type |-> type, node |-> node]
SemanticError(t, msg, node) ==
    [st |-> t, thrown |-> "SemanticError", error |-> msg, type |-> "ERROR",
     node |-> node]
SymbolNotFound(t, node) ==
    [st |-> t, thrown |-> "runtime_error", error |-> "Symbol not found",
     type |-> "ERROR", node |-> node]

Arithmetic == {"PLUS", "MINUS", "STAR", "SLASH"}
Comparison ==
    {"GREATER", "LESS", "GREATER_EQUAL", "LESS_EQUAL", "EQUAL_EQUAL", "NOT_EQUAL"}

\* checkTypeCompatibility throws unless a type is NONE or they are equal
checkTypeCompatibilityThrows(expected, actual) ==
    expected # "NONE" /\ actual # "NONE" /\ expected # actual

\* the analysis goes on with K unless an exception was thrown
analyzeThen(a, K(_)) == IF a.thrown # "" THEN a ELSE K(a)

\* a is the analysis of a child: Put(child) is the parent holding the child
\* as the analysis left it; the analysis goes on with K unless an exception
\* was thrown
analyzeChild(a, Put(_), K(_)) ==
    IF a.thrown # "" THEN [a EXCEPT !.node = Put(a.node)] ELSE K(a)

\* a is the analysis of the last child: the parent is Put(child) whether
\* or not an exception was thrown
analyzeLast(a, Put(_)) == [a EXCEPT !.node = Put(a.node)]

\* an annotation that folds a binary expression into its left operand
setInferredTypeFolding(e, type) ==
    IF e.kind = "Binary" THEN [e.left EXCEPT !.inferredType = type]
    ELSE [e EXCEPT !.inferredType = type]

\* expr->inferredType = type
setInferredType(e, type) == [e EXCEPT !.inferredType = type]

RECURSIVE inferExprType(_, _)
RECURSIVE inferArguments(_, _)
RECURSIVE inferElements(_, _, _)
RECURSIVE inferEntries(_, _, _, _)

\* the arguments of a call expression inferred one after the other
inferArguments(t, args) ==
    IF args = << >> THEN Analyzed(t, "NONE", << >>)
    ELSE analyzeChild(inferExprType(t, Head(args)),
                      LAMBDA arg : <<arg>> \o Tail(args),
                      LAMBDA first :
         analyzeLast(inferArguments(first.st, Tail(args)),
                     LAMBDA rest : <<first.node>> \o rest))

\* inferExprType, a comparison: an operand of type NONE that is a variable
\* is taken (and registered, and annotated) as INTEGER; then the types must
\* be equal
inferComparison(t, e, leftType, rightType) ==
    LET fixLeft == leftType = "NONE" /\ e.left.kind = "Variable"
        t1 == IF fixLeft THEN updateSymbolType(t, e.left.name, "INTEGER") ELSE t
        e1 == IF fixLeft THEN [e EXCEPT !.left = setInferredType(@, "INTEGER")]
              ELSE e
        lt == IF fixLeft THEN "INTEGER" ELSE leftType
        fixRight == rightType = "NONE" /\ e.right.kind = "Variable"
        t2 == IF fixRight THEN updateSymbolType(t1, e.right.name, "INTEGER") ELSE t1
        e2 == IF fixRight THEN [e1 EXCEPT !.right = setInferredType(@, "INTEGER")]
              ELSE e1
        rt == IF fixRight THEN "INTEGER" ELSE rightType
    IN  IF lt = "NONE" \/ rt = "NONE"
        THEN SemanticError(t2, "Cannot compare operands with unknown types", e2)
        ELSE IF lt = rt THEN Analyzed(t2, "INTEGER", e2)
        ELSE SemanticError(t2, "Operands must have the same type for comparison", e2)

\* inferExprType, BinaryExpr, once both operands are inferred
inferBinary(t, e, leftType, rightType) ==
    IF e.op \in Arithmetic
    THEN IF leftType = "INTEGER" /\ rightType = "INTEGER"
         THEN Analyzed(t, "INTEGER", e)
         ELSE IF leftType # "INTEGER"
         THEN SemanticError(t, "Left operand must be an integer", e)
         ELSE SemanticError(t, "Right operand must be an integer",
                            [e EXCEPT !.left = setInferredType(@, "INTEGER")])
    ELSE IF e.op \in Comparison
    THEN inferComparison(t, e, leftType, rightType)
    ELSE Analyzed(t, "ERROR", e)

\* the test of the literal loops: elem->inferredType != elementType &&
\* elem->inferredType != Type::NONE, once elementType is set.  What is
\* read is the annotation of the node, not the Type just returned for it.
differsFromKnown(inferred, known) ==
    /\ known # "NONE"
    /\ inferred.node.inferredType # known
    /\ inferred.node.inferredType # "NONE"

\* inferExprType, ListLiteralExpr, the loop over the elements: the first
\* element type returned becomes elementType
inferElements(t, elements, elementType) ==
    IF elements = << >> THEN Analyzed(t, "LIST", << >>)
    ELSE analyzeChild(inferExprType(t, Head(elements)),
                      LAMBDA elem : <<elem>> \o Tail(elements),
                      LAMBDA elem :
         IF differsFromKnown(elem, elementType)
         THEN SemanticError(elem.st,
                  "All elements in a list must have the same type",
                  <<elem.node>> \o Tail(elements))
         ELSE analyzeLast(
                  inferElements(elem.st, Tail(elements),
                      IF elementType = "NONE" THEN elem.type ELSE elementType),
                  LAMBDA rest : <<elem.node>> \o rest))

\* inferExprType, DictLiteralExpr, the loop over the entries
inferEntries(t, entries, keyType, valueType) ==
    IF entries = << >> THEN Analyzed(t, "DICT", << >>)
    ELSE analyzeChild(inferExprType(t, Head(entries)[1]),
                      LAMBDA key : << <<key, Head(entries)[2]>> >> \o Tail(entries),
                      LAMBDA key :
         IF differsFromKnown(key, keyType)
         THEN SemanticError(key.st,
                  "All keys in a dictionary must have the same type",
                  << <<key.node, Head(entries)[2]>> >> \o Tail(entries))
         ELSE analyzeChild(inferExprType(key.st, Head(entries)[2]),
                  LAMBDA value : << <<key.node, value>> >> \o Tail(entries),
                  LAMBDA value :
              IF differsFromKnown(value, valueType)
              THEN SemanticError(value.st,
                       "All values in a dictionary must have the same type",
                       << <<key.node, value.node>> >> \o Tail(entries))
              ELSE analyzeLast(
                       inferEntries(value.st, Tail(entries),
                           IF keyType = "NONE" THEN key.type ELSE keyType,
                           IF valueType = "NONE" THEN value.type ELSE valueType),
                       LAMBDA rest : << <<key.node, value.node>> >> \o rest)))

\* inferExprType, IndexExpr, once base and index are inferred: the result
\* is INTEGER for a list and for a dictionary
inferIndex(t, e, baseType, indexType) ==
    IF baseType # "LIST" /\ baseType # "DICT"
    THEN SemanticError(t, "Index base must be a list or dictionary", e)
    ELSE IF indexType # "INTEGER"
    THEN SemanticError(t, "Index must be an integer", e)
    ELSE Analyzed(t, "INTEGER", e)

\* inferExprType returns the Type; it does not write expr->inferredType
inferExprType(t, e) ==
    CASE e.kind = "Literal" ->
            Analyzed(t, IF e.type = "NUMBER" THEN "INTEGER"
                        ELSE IF e.type = "STRING" THEN "STRING" ELSE "ERROR", e)
      [] e.kind = "Binary" ->
            analyzeChild(inferExprType(t, e.left),
                         LAMBDA left : [e EXCEPT !.left = left],
                         LAMBDA l :
            analyzeChild(inferExprType(l.st, e.right),
                         LAMBDA right : [e EXCEPT !.left = l.node, !.right = right],
                         LAMBDA r :
            inferBinary(r.st, [e EXCEPT !.left = l.node, !.right = r.node],
                        l.type, r.type)))
      [] e.kind = "Paren" ->
            analyzeLast(inferExprType(t, e.expr),
                        LAMBDA inner : [e EXCEPT !.expr = inner])
      [] e.kind = "ListLiteral" ->
            analyzeLast(inferElements(t, e.elements, "NONE"),
                        LAMBDA elements : [e EXCEPT !.elements = elements])
      [] e.kind = "DictLiteral" ->
            analyzeLast(inferEntries(t, e.entries, "NONE", "NONE"),
                        LAMBDA entries : [e EXCEPT !.entries = entries])
      [] e.kind = "Index" ->
            analyzeChild(inferExprType(t, e.base),
                         LAMBDA base : [e EXCEPT !.base = base],
                         LAMBDA base :
            analyzeChild(inferExprType(base.st, e.index),
                         LAMBDA index : [e EXCEPT !.base = base.node,
                                                  !.index = index],
                         LAMBDA index :
            inferIndex(index.st,
                       [e EXCEPT !.base = base.node, !.index = index.node],
                       base.type, index.type)))
      [] e.kind = "Call" ->
            IF getSymbolThrows(t, e.name) THEN SymbolNotFound(t, e)
            ELSE IF getSymbol(t, e.name).type # "FUNCTION"
            THEN SemanticError(t, "is not a function", e)
            ELSE IF Len(getSymbol(t, e.name).parameters) # Len(e.arguments)
            THEN SemanticError(t, "Incorrect number of arguments", e)
            ELSE analyzeChild(inferArguments(t, e.arguments),
                              LAMBDA args : [e EXCEPT !.arguments = args],
                              LAMBDA args :
                 Analyzed(args.st, getSymbol(t, e.name).returnType,
                          [e EXCEPT !.arguments = args.node]))
      [] e.kind = "Variable" ->
            IF getSymbolThrows(t, e.name) THEN SymbolNotFound(t, e)
            ELSE Analyzed(t, getSymbol(t, e.name).type, e)
      [] OTHER -> Analyzed(t, "ERROR", e)

\* analyzeExpr: expr->inferredType = inferExprType(expr)
analyzeExpr(t, e) ==
    analyzeThen(inferExprType(t, e), LAMBDA inferred :
    [inferred EXCEPT !.node = setInferredType(@, inferred.type)])

RECURSIVE analyzeStmt(_, _)
RECURSIVE analyzeStmts(_, _)
RECURSIVE analyzeArguments(_, _)
RECURSIVE analyzeBranches(_, _)
RECURSIVE analyzeFunctionBody(_, _, _)
RECURSIVE analyzeCases(_, _, _)

\* statements analyzed one after the other; an exception ends the analysis
analyzeStmts(t, body) ==
    IF body = << >> THEN Analyzed(t, "NONE", << >>)
    ELSE analyzeChild(analyzeStmt(t, Head(body)),
                      LAMBDA stmt : <<stmt>> \o Tail(body),
                      LAMBDA first :
         analyzeLast(analyzeStmts(first.st, Tail(body)),
                     LAMBDA rest : <<first.node>> \o rest))

\* the arguments of a call statement: analyzeExpr on one after the other
analyzeArguments(t, args) ==
    IF args = << >> THEN Analyzed(t, "NONE", << >>)
    ELSE analyzeChild(analyzeExpr(t, Head(args)),
                      LAMBDA arg : <<arg>> \o Tail(args),
                      LAMBDA first :
         analyzeLast(analyzeArguments(first.st, Tail(args)),
                     LAMBDA rest : <<first.node>> \o rest))

\* analyzeStmt, WhenStmt: no scope is entered for a branch body
analyzeBranches(t, branches) ==
    IF branches = << >> THEN Analyzed(t, "NONE", << >>)
    ELSE analyzeChild(
             IF Head(branches).condition.kind = "None"
             THEN Analyzed(t, "INTEGER", Head(branches).condition)
             ELSE analyzeExpr(t, Head(branches).condition),
             LAMBDA cond :
                 <<[Head(branches) EXCEPT !.condition = cond]>> \o Tail(branches),
             LAMBDA c :
         IF c.type # "INTEGER"
         THEN SemanticError(c.st, "Condition must be an integer (boolean-like)",
                  <<[Head(branches) EXCEPT !.condition = c.node]>>
                      \o Tail(branches))
         ELSE analyzeChild(LeftBody(analyzeStmts(EnterBody(c.st),
                                                 Head(branches).body)),
                  LAMBDA body :
                      <<[condition |-> c.node, body |-> body]>> \o Tail(branches),
                  LAMBDA body :
              analyzeLast(analyzeBranches(body.st, Tail(branches)),
                  LAMBDA rest :
                      <<[condition |-> c.node, body |-> body.node]>> \o rest)))

\* analyzeStmt, FunctionDefStmt, the loop over the body: every statement is
\* analyzed; for a return WITH a value at the top level of the body the
\* value is analyzed once more, returnType is written again, and the type
\* fixes or checks the return type.  The result's type is the inferred
\* return type.
analyzeFunctionBody(t, body, inferredReturnType) ==
    IF body = << >> THEN Analyzed(t, inferredReturnType, << >>)
    ELSE analyzeChild(analyzeStmt(t, Head(body)),
                      LAMBDA stmt : <<stmt>> \o Tail(body),
                      LAMBDA a :
         IF Head(body).kind = "Return" /\ Head(body).value.kind # "None"
         THEN analyzeChild(analyzeExpr(a.st, a.node.value),
                  LAMBDA value : <<[a.node EXCEPT !.value = value]>> \o Tail(body),
                  LAMBDA r :
              IF inferredReturnType # "NONE" /\ r.type # "NONE"
                     /\ r.type # inferredReturnType
              THEN SemanticError(r.st, "Inconsistent return type in function",
                       <<[a.node EXCEPT !.value = r.node, !.returnType = r.type]>>
                           \o Tail(body))
              ELSE analyzeLast(
                       analyzeFunctionBody(r.st, Tail(body),
                           IF inferredReturnType = "NONE" THEN r.type
                           ELSE inferredReturnType),
                       LAMBDA rest :
                           <<[a.node EXCEPT !.value = r.node,
                                            !.returnType = r.type]>> \o rest))
         ELSE analyzeLast(analyzeFunctionBody(a.st, Tail(body), inferredReturnType),
                          LAMBDA rest : <<a.node>> \o rest))

\* the declared type of a VarDeclStmt with a type hint
declaredTypeOfHint(hint) == IF hint = "INTEGER" THEN "INTEGER" ELSE "STRING"

\* analyzeStmt, VarDeclStmt
analyzeVarDecl(t, s) ==
    IF s.init.kind = "None" THEN Analyzed(t, "NONE", s)
    ELSE analyzeChild(analyzeExpr(t, s.init),
                      LAMBDA init : [s EXCEPT !.init = init],
                      LAMBDA init :
         LET hint == typeHintOf(s)
             declaredType == IF hint # "NONE" THEN declaredTypeOfHint(hint)
                             ELSE init.type
             declared == [s EXCEPT !.init = init.node,
                                   !.declaredType = declaredType] IN
         IF hint # "NONE" /\ checkTypeCompatibilityThrows(declaredType, init.type)
         THEN SemanticError(init.st, "Type mismatch", declared)
         ELSE IF updateSymbolTypeThrows(init.st, s.name)
         THEN SymbolNotFound(init.st, declared)
         ELSE Analyzed(updateSymbolType(init.st, s.name, declaredType), "NONE",
                       declared))

\* analyzeStmt, SetStmt
analyzeSet(t, s) ==
    analyzeChild(analyzeExpr(t, s.value),
                 LAMBDA value : [s EXCEPT !.value = value],
                 LAMBDA value :
    IF getSymbolThrows(value.st, s.name)
    THEN SymbolNotFound(value.st, [s EXCEPT !.value = value.node])
    ELSE IF checkTypeCompatibilityThrows(getSymbol(value.st, s.name).type, value.type)
    THEN SemanticError(value.st, "Type mismatch", [s EXCEPT !.value = value.node])
    ELSE Analyzed(updateSymbolType(value.st, s.name, value.type), "NONE",
                  [s EXCEPT !.value = value.node]))

\* analyzeStmt, WhileStmt: no scope is entered for the body
analyzeWhile(t, s) ==
    analyzeChild(analyzeExpr(t, s.condition),
                 LAMBDA cond : [s EXCEPT !.condition = cond],
                 LAMBDA c :
    IF c.type # "INTEGER"
    THEN SemanticError(c.st, "While condition must be an integer (boolean-like)",
                       [s EXCEPT !.condition = c.node])
    ELSE analyzeLast(LeftBody(analyzeStmts(EnterBody(c.st), s.body)),
                     LAMBDA body : [s EXCEPT !.condition = c.node, !.body = body]))

\* a block of the analyzer after its body: exitScope
analyzeBlockEnd(body) ==
    IF body.thrown # "" THEN body
    ELSE IF exitScopeThrows(body.st)
    THEN [body EXCEPT !.thrown = "runtime_error", !.error = "Cannot exit global scope"]
    ELSE [body EXCEPT !.st = exitScope(@)]

\* analyzeStmt, ForStmt: start, end and step outside, the body in a scope
\* holding the iterator
analyzeFor(t, s) ==
    analyzeChild(analyzeExpr(t, s.start),
                 LAMBDA start : [s EXCEPT !.start = start],
                 LAMBDA start :
    analyzeChild(analyzeExpr(start.st, s.end),
                 LAMBDA end : [s EXCEPT !.start = start.node, !.end = end],
                 LAMBDA end :
    IF start.type # "INTEGER" \/ end.type # "INTEGER"
    THEN SemanticError(end.st, "For loop start and end must be integers",
                       [s EXCEPT !.start = start.node, !.end = end.node])
    ELSE analyzeChild(
             IF s.step.kind = "None" THEN Analyzed(end.st, "INTEGER", s.step)
             ELSE analyzeExpr(end.st, s.step),
             LAMBDA step : [s EXCEPT !.start = start.node, !.end = end.node,
                                     !.step = step],
             LAMBDA step :
         IF step.type # "INTEGER"
         THEN SemanticError(step.st, "For loop step must be an integer",
                  [s EXCEPT !.start = start.node, !.end = end.node,
                            !.step = step.node])
         ELSE analyzeLast(
                  analyzeBlockEnd(
                      LeftBody(
                          analyzeStmts(EnterBody(addSymbol(enterScope(step.st),
                                                           s.iterator, "INTEGER",
                                                           << >>)),
                                       s.body))),
                  LAMBDA body : [s EXCEPT !.start = start.node, !.end = end.node,
                                          !.step = step.node, !.body = body]))))

\* analyzeStmt, FunctionDefStmt
analyzeFunctionDef(t, s) ==
    analyzeChild(LeftBody(analyzeFunctionBody(
                              EnterBody(addParameters(enterScope(t), s.parameters)),
                              s.body, "NONE")),
                 LAMBDA body : [s EXCEPT !.body = body],
                 LAMBDA body :
    IF updateSymbolReturnTypeThrows(body.st, s.name)
    THEN SymbolNotFound(body.st, [s EXCEPT !.body = body.node])
    ELSE analyzeBlockEnd(
             [body EXCEPT
                !.st = updateSymbolReturnType(@, s.name, body.type),
                !.node = [s EXCEPT !.body = body.node]]))

\* analyzeStmt, CallStmt
analyzeCallStmt(t, s) ==
    IF getSymbolThrows(t, s.name) THEN SymbolNotFound(t, s)
    ELSE IF getSymbol(t, s.name).type # "FUNCTION"
    THEN SemanticError(t, "is not a function", s)
    ELSE IF Len(getSymbol(t, s.name).parameters) # Len(s.arguments)
    THEN SemanticError(t, "Incorrect number of arguments", s)
    ELSE analyzeLast(analyzeArguments(t, s.arguments),
                     LAMBDA args : [s EXCEPT !.arguments = args])

\* analyzeStmt, ReturnStmt
analyzeReturn(t, s) ==
    IF s.value.kind = "None" THEN Analyzed(t, "NONE", s)
    ELSE analyzeChild(analyzeExpr(t, s.value),
                      LAMBDA value : [s EXCEPT !.value = value],
                      LAMBDA value :
         [value EXCEPT !.node = [s EXCEPT !.value = value.node,
                                          !.returnType = value.type]])

\* analyzeStmt, IndexAssignStmt: target and value are analyzed, then the
\* annotation of the target, an IndexExpr, must be LIST or DICT
analyzeIndexAssign(t, s) ==
    analyzeChild(analyzeExpr(t, s.target),
                 LAMBDA target : [s EXCEPT !.target = target],
                 LAMBDA target :
    analyzeChild(analyzeExpr(target.st, s.value),
                 LAMBDA value : [s EXCEPT !.target = target.node, !.value = value],
                 LAMBDA value :
    IF target.node.inferredType # "LIST" /\ target.node.inferredType # "DICT"
    THEN SemanticError(value.st, "Index target must be a list or dictionary",
                       [s EXCEPT !.target = target.node, !.value = value.node])
    ELSE Analyzed(value.st, "NONE",
                  [s EXCEPT !.target = target.node, !.value = value.node])))

\* analyzeStmt, ThrowStmt: the expression must be a STRING
analyzeThrow(t, s) ==
    analyzeChild(analyzeExpr(t, s.expr),
                 LAMBDA e : [s EXCEPT !.expr = e],
                 LAMBDA e :
    IF e.type # "STRING"
    THEN SemanticError(e.st, "Throw expression must be a string",
                       [s EXCEPT !.expr = e.node])
    ELSE Analyzed(e.st, "NONE", [s EXCEPT !.expr = e.node]))

\* analyzeStmt, TryCatchStmt: the try body with no scope entered, the catch
\* body in a scope holding the exception variable as STRING
analyzeTryCatch(t, s) ==
    analyzeChild(LeftBody(analyzeStmts(EnterBody(t), s.tryBody)),
                 LAMBDA body : [s EXCEPT !.tryBody = body],
                 LAMBDA try :
    analyzeLast(
        analyzeBlockEnd(
            LeftBody(
                analyzeStmts(EnterBody(addSymbol(enterScope(try.st),
                                                 s.exceptionVar, "STRING", << >>)),
                             s.catchBody))),
        LAMBDA body : [s EXCEPT !.tryBody = try.node, !.catchBody = body]))

\* analyzeStmt, MatchStmt, the loop over the cases: the pattern is
\* analyzed and its type checked against the condition's, then the body is
\* analyzed with no scope entered
analyzeCases(t, cases, conditionType) ==
    IF cases = << >> THEN Analyzed(t, "NONE", << >>)
    ELSE analyzeChild(analyzeExpr(t, Head(cases).pattern),
                      LAMBDA p : <<[Head(cases) EXCEPT !.pattern = p]>> \o Tail(cases),
                      LAMBDA p :
         IF checkTypeCompatibilityThrows(conditionType, p.node.inferredType)
         THEN SemanticError(p.st, "Type mismatch",
                            <<[Head(cases) EXCEPT !.pattern = p.node]>> \o Tail(cases))
         ELSE analyzeChild(LeftBody(analyzeStmts(EnterBody(p.st),
                                                 Head(cases).body)),
                           LAMBDA body : <<Case(p.node, body)>> \o Tail(cases),
                           LAMBDA b :
              analyzeLast(analyzeCases(b.st, Tail(cases), conditionType),
                          LAMBDA rest : <<Case(p.node, b.node)>> \o rest)))

\* analyzeStmt, MatchStmt
analyzeMatch(t, s) ==
    analyzeChild(analyzeExpr(t, s.condition),
                 LAMBDA cond : [s EXCEPT !.condition = cond],
                 LAMBDA c :
    analyzeLast(analyzeCases(c.st, s.cases, c.node.inferredType),
                LAMBDA cases : [s EXCEPT !.condition = c.node, !.cases = cases]))

\* analyzeStmt: a statement of a kind without a case (SayStmt) is skipped
analyzeStmt(t, s) ==
    CASE s.kind = "VarDecl"     -> analyzeVarDecl(t, s)
      [] s.kind = "Set"         -> analyzeSet(t, s)
      [] s.kind = "When"        ->
             analyzeLast(analyzeBranches(t, s.branches),
                         LAMBDA branches : [s EXCEPT !.branches = branches])
      [] s.kind = "While"       -> analyzeWhile(t, s)
      [] s.kind = "For"         -> analyzeFor(t, s)
      [] s.kind = "FunctionDef" -> analyzeFunctionDef(t, s)
      [] s.kind = "CallStmt"    -> analyzeCallStmt(t, s)
      [] s.kind = "Return"      -> analyzeReturn(t, s)
      [] s.kind = "Throw"       -> analyzeThrow(t, s)
      [] s.kind = "IndexAssign" -> analyzeIndexAssign(t, s)
      [] s.kind = "TryCatch"    -> analyzeTryCatch(t, s)
      [] s.kind = "Match"       -> analyzeMatch(t, s)
      [] OTHER                  -> Analyzed(t, "NONE", s)

\* SemanticAnalyzer(symbolTable).analyze(program)
analyze(t, statements) == analyzeStmts(t, statements)

-----------------------------------------------------------------------------
(* Interpreter.h: Value and Environment *)

NoFunction == [kind |-> "None"]

\* variant<monostate, int64_t, string, shared_ptr<FunctionDefStmt>>
Void == [t |-> "void", i |-> 0, s |-> << >>, f |-> NoFunction]
IntValue(n) == [t |-> "int", i |-> n, s |-> << >>, f |-> NoFunction]
StringValue(cs) == [t |-> "string", i |-> 0, s |-> cs, f |-> NoFunction]
FunctionValue(def) == [t |-> "function", i |-> 0, s |-> << >>, f |-> def]

\* Environment(): one scope, the global one, and currentScope = 0
NewEnvironment == [scopes |-> << << >> >>, currentScope |-> 0]

\* Environment::enterScope: a scope is appended to the end of the vector
\* and currentScope is incremented
environmentEnterScope(env) ==
    [scopes |-> Append(env.scopes, << >>), currentScope |-> env.currentScope + 1]

\* Environment::exitScope throws when the current scope is the global one
environmentExitScopeThrows(env) == env.currentScope = 0

\* Environment::exitScope: currentScope is decremented, the vector is kept
environmentExitScope(env) == [env EXCEPT !.currentScope = @ - 1]

\* Environment::define: scopes[currentScope][name] = value
define(env, name, value) ==
    [env EXCEPT !.scopes[env.currentScope + 1] =
        [n \in DOMAIN @ \cup {name} |-> IF n = name THEN value ELSE @[n]]]

\* the C++ indices of the scopes from currentScope down to 0 with the name
Holders(env, name) ==
    {k \in 0 .. env.currentScope : name \in DOMAIN env.scopes[k + 1]}

\* Environment::get and Environment::assign throw "Undefined variable"
undefinedVariable(env, name) == Holders(env, name) = {}

\* Environment::get: the value in the first scope, searching downward,
\* that has the name
get(env, name) == env.scopes[Max(Holders(env, name)) + 1][name]

\* Environment::assign: that entry is overwritten
assign(env, name, value) ==
    [env EXCEPT !.scopes[Max(Holders(env, name)) + 1][name] = value]

-----------------------------------------------------------------------------
(* Interpreter.cpp.  Numbers are the mathematical integers: the programs   *)
(* of the model stay far inside int64_t.                                   *)

DigitChar == <<"0", "1", "2", "3", "4", "5", "6", "7", "8", "9">>
DigitValue(c) == CHOOSE d \in 0 .. 9 : DigitChar[d + 1] = c

\* std::to_string(int64_t)
RECURSIVE to_string_digits(_)
to_string_digits(n) ==
    IF n < 10 THEN <<DigitChar[n + 1]>>
    ELSE to_string_digits(n \div 10) \o <<DigitChar[(n % 10) + 1]>>

to_string(n) == IF n < 0 THEN <<"-">> \o to_string_digits(-n) ELSE to_string_digits(n)

\* std::stoll: an optional sign, then the digits up to the first character
\* that is none
RECURSIVE stollDigits(_, _)
stollDigits(cs, acc) ==
    IF cs = << >> THEN acc
    ELSE IF Head(cs) \notin Digits THEN acc
    ELSE stollDigits(Tail(cs), acc * 10 + DigitValue(Head(cs)))

stoll(cs) ==
    IF cs = << >> THEN 0
    ELSE IF Head(cs) = "-" THEN -stollDigits(Tail(cs), 0)
    ELSE stollDigits(cs, 0)

\* valueToString
valueToString(value) ==
    CASE value.t = "int"      -> to_string(value.i)
      [] value.t = "string"   -> value.s
      [] value.t = "function" -> <<"[", "f", "u", "n", "c", "t", "i", "o", "n", "]">>
      [] OTHER                -> <<"[", "v", "o", "i", "d", "]">>

\* l / r of int64_t: the quotient truncated toward zero
quotient(l, r) ==
    LET al == IF l < 0 THEN -l ELSE l
        ar == IF r < 0 THEN -r ELSE r
    IN  IF (l < 0) = (r < 0) THEN al \div ar ELSE -(al \div ar)

\* Interpreter(): a fresh Environment.  Beside the program's state the
\* record keeps a history of what was executed:
\*   steps      executeStmt calls begun
\*   calls      for each call that finished: currentScope before and after
\*   divisions  for each division by 0 evaluated: out and steps at that time
\*   loops      for each for loop begun: its bounds and its iterations
\*   mixed      a comparison of an integer with a string was evaluated
\*   whens      for each when statement begun: currentScope before and
\*              after, the number of its branches and which of them have
\*              no condition, the branches whose condition was evaluated
\*              (in that order) with the values, the branches whose body
\*              was executed, and whether the statement completed
NewInterpreter ==
    [pc |-> 0, env |-> NewEnvironment, out |-> << >>, sig |-> "none",
     val |-> Void, err |-> "", steps |-> 0, calls |-> << >>,
     divisions |-> << >>, loops |-> << >>, mixed |-> FALSE, whens |-> << >>]

\* throw std::runtime_error(msg)
Throw(R, msg) == [R EXCEPT !.sig = "error", !.err = msg]

\* a value is returned from evaluateExpr
Yield(R, value) == [R EXCEPT !.val = value]

\* evaluateExpr, BinaryExpr, once both operands are evaluated
binary(R, op, left, right) ==
    IF left.t = "int" /\ right.t = "int"
    THEN LET l == left.i
             r == right.i IN
         CASE op = "PLUS"  -> Yield(R, IntValue(l + r))
           [] op = "MINUS" -> Yield(R, IntValue(l - r))
           [] op = "STAR"  -> Yield(R, IntValue(l * r))
           [] op = "SLASH" ->
                IF r = 0
                THEN Throw([R EXCEPT !.divisions =
                               Append(@, [out |-> R.out, steps |-> R.steps])],
                           "Division by zero")
                ELSE Yield(R, IntValue(quotient(l, r)))
           [] op = "GREATER"       -> Yield(R, IntValue(IF l > r THEN 1 ELSE 0))
           [] op = "LESS"          -> Yield(R, IntValue(IF l < r THEN 1 ELSE 0))
           [] op = "GREATER_EQUAL" -> Yield(R, IntValue(IF l >= r THEN 1 ELSE 0))
           [] op = "LESS_EQUAL"    -> Yield(R, IntValue(IF l <= r THEN 1 ELSE 0))
           [] op = "EQUAL_EQUAL"   -> Yield(R, IntValue(IF l = r THEN 1 ELSE 0))
           [] op = "NOT_EQUAL"     -> Yield(R, IntValue(IF l # r THEN 1 ELSE 0))
           [] OTHER -> Throw(R, "Unknown binary operator")
    ELSE Throw([R EXCEPT !.mixed =
                   @ \/ (op \in Comparison /\ {left.t, right.t} = {"int", "string"})],
               "Type mismatch in binary expression")

\* catch (const Value& returnValue): the handler of a call takes a return
\* signal and nothing else
callCatchesAnything(sig) == sig \in {"return", "error"}
callCatches(sig) == sig = "return"

\* for (i = start; i <= end; ...) when step > 0, (...; i >= end; ...) else
forContinuesExclusive(i, end, step) == IF step > 0 THEN i < end ELSE i > end
forContinues(i, end, step) == IF step > 0 THEN i <= end ELSE i >= end

\* the execution goes on with K unless something was thrown
then(R, K(_)) == IF R.sig # "none" THEN R ELSE K(R)

\* K applied to a value computed once
with(v, K(_)) == K(v)

RECURSIVE evaluateExpr(_, _)
RECURSIVE evaluateArguments(_, _, _)
RECURSIVE defineParameters(_, _, _)
RECURSIVE executeStmt(_, _)
RECURSIVE executeStmts(_, _)
RECURSIVE executeBranches(_, _, _, _)
RECURSIVE executeWhile(_, _)
RECURSIVE forLoop(_, _, _, _)

\* for (arg : call->arguments) args.push_back(evaluateExpr(arg))
evaluateArguments(R, args, values) ==
    IF args = << >> THEN [rt |-> R, values |-> values]
    ELSE with(evaluateExpr(R, Head(args)), LAMBDA first :
         IF first.sig # "none" THEN [rt |-> first, values |-> values]
         ELSE evaluateArguments(first, Tail(args), Append(values, first.val)))

\* env.define(func->parameters[i], args[i]) for every parameter
defineParameters(env, params, values) ==
    IF params = << >> THEN env
    ELSE defineParameters(define(env, Head(params), Head(values)),
                          Tail(params), Tail(values))

\* env.exitScope() where the code calls it
ExitScope(R) ==
    IF environmentExitScopeThrows(R.env) THEN Throw(R, "Cannot exit global scope")
    ELSE [R EXCEPT !.env = environmentExitScope(@)]

\* evaluateExpr, CallExpr, from env.enterScope() on: the parameters are
\* defined in a scope of the call, the body runs, and the scope is left
\* when the body ends or throws a Value; before is currentScope at the call
evaluateCallBody(R, func, values, before) ==
    with(executeStmts(
             [R EXCEPT !.env = defineParameters(environmentEnterScope(@),
                                                func.parameters, values)],
             func.body),
         LAMBDA body :
         IF body.sig = "none" \/ callCatches(body.sig)
         THEN with(ExitScope([body EXCEPT !.sig = "none"]), LAMBDA left :
              [left EXCEPT
                 !.val = IF body.sig # "none" THEN body.val ELSE Void,
                 !.calls = Append(@, [before |-> before,
                                      after |-> left.env.currentScope,
                                      returned |-> body.sig # "none"])])
         ELSE body)

\* evaluateExpr, CallExpr
evaluateCall(R, name, arguments) ==
    IF undefinedVariable(R.env, name) THEN Throw(R, "Undefined variable")
    ELSE IF get(R.env, name).t # "function" THEN Throw(R, "is not a function")
    ELSE with(evaluateArguments(R, arguments, << >>), LAMBDA args :
         IF args.rt.sig # "none" THEN args.rt
         ELSE IF Len(args.values) # Len(get(R.env, name).f.parameters)
         THEN Throw(args.rt, "expected a different number of arguments")
         ELSE evaluateCallBody(args.rt, get(R.env, name).f, args.values,
                               args.rt.env.currentScope))

evaluateExpr(R, e) ==
    CASE e.kind = "Literal" /\ e.type = "NUMBER" -> Yield(R, IntValue(stoll(e.lexeme)))
      [] e.kind = "Literal" /\ e.type = "STRING" -> Yield(R, StringValue(e.lexeme))
      [] e.kind = "Variable" ->
            IF undefinedVariable(R.env, e.name) THEN Throw(R, "Undefined variable")
            ELSE Yield(R, get(R.env, e.name))
      [] e.kind = "Binary" ->
            then(evaluateExpr(R, e.left), LAMBDA left :
            then(evaluateExpr(left, e.right), LAMBDA right :
            binary(right, e.op, left.val, right.val)))
      [] e.kind = "Call" -> evaluateCall(R, e.name, e.arguments)
      [] e.kind = "Paren" -> evaluateExpr(R, e.expr)
      [] OTHER -> Throw(R, "Unknown expression type")

\* statements executed one after the other until one throws
executeStmts(R, body) ==
    IF body = << >> THEN R
    ELSE then(executeStmt(R, Head(body)),
              LAMBDA first : executeStmts(first, Tail(body)))

\* env.enterScope(); for (s : body) executeStmt(s); env.exitScope();
executeBlock(R, body) ==
    then(executeStmts([R EXCEPT !.env = environmentEnterScope(@)], body),
         LAMBDA B : ExitScope(B))

\* a condition: it must evaluate to an integer
evaluateCondition(R, e) ==
    then(evaluateExpr(R, e), LAMBDA cond :
    IF cond.val.t # "int" THEN Throw(cond, "Condition must evaluate to an integer")
    ELSE cond)

\* a when statement whose branch bodies do not end with break
whenFallsThrough == FALSE

\* break after the body of a branch: the loop over the branches is left
whenBreaks == TRUE

\* executeStmt, WhenStmt, the loop over the branches from branch k on: the
\* first branch without a condition or with a condition that is not 0
\* runs, in a scope of its own; id is the place of the statement in the
\* history
executeBranches(R, branches, k, id) ==
    IF k > Len(branches)
    THEN [R EXCEPT !.whens[id].after = R.env.currentScope,
                   !.whens[id].finished = TRUE]
    ELSE IF branches[k].condition.kind = "None"
    THEN then(executeBlock([R EXCEPT !.whens[id].bodies = Append(@, k)],
                           branches[k].body),
              LAMBDA B :
              executeBranches(B, branches,
                              IF whenBreaks THEN Len(branches) + 1 ELSE k + 1, id))
    ELSE then(evaluateCondition(
                  [R EXCEPT !.whens[id].conditions = Append(@, k)],
                  branches[k].condition),
              LAMBDA cond :
         IF cond.val.i # 0
         THEN then(executeBlock(
                       [cond EXCEPT !.whens[id].values = Append(@, cond.val.i),
                                    !.whens[id].bodies = Append(@, k)],
                       branches[k].body),
                   LAMBDA B :
                   executeBranches(B, branches,
                                   IF whenBreaks THEN Len(branches) + 1 ELSE k + 1,
                                   id))
         ELSE executeBranches(
                  [cond EXCEPT !.whens[id].values = Append(@, cond.val.i)],
                  branches, k + 1, id))

\* executeStmt, WhenStmt
executeWhen(R, s) ==
    executeBranches(
        [R EXCEPT !.whens =
            Append(@, [before |-> R.env.currentScope,
                       after |-> R.env.currentScope,
                       branches |-> Len(s.branches),
                       unconditional |->
                           {k \in 1 .. Len(s.branches) :
                               s.branches[k].condition.kind = "None"},
                       conditions |-> << >>, values |-> << >>,
                       bodies |-> << >>, finished |-> FALSE])],
        s.branches, 1, Len(R.whens) + 1)

\* executeStmt, WhileStmt: a scope per iteration
executeWhile(R, s) ==
    then(evaluateCondition(R, s.condition), LAMBDA cond :
    IF cond.val.i = 0 THEN cond
    ELSE then(executeBlock(cond, s.body), LAMBDA B : executeWhile(B, s)))

\* executeStmt, ForStmt, the loop: the iterator is assigned i, the body
\* runs, i += step; id is the place of the loop in the history
forLoop(R, s, i, id) ==
    IF ~forContinues(i, R.loops[id].end, R.loops[id].step)
    THEN ExitScope([R EXCEPT !.loops[id].finished = TRUE])
    ELSE with(assign(R.env, s.iterator, IntValue(i)), LAMBDA assigned :
         then(executeStmts(
                  [R EXCEPT !.env = assigned,
                            !.loops[id].iterations =
                                Append(@, [i |-> i,
                                           bound |-> get(assigned, s.iterator)])],
                  s.body),
              LAMBDA B : forLoop(B, s, i + R.loops[id].step, id)))

\* executeStmt, ForStmt
executeFor(R, s) ==
    then(evaluateExpr(R, s.start), LAMBDA start :
    then(evaluateExpr(start, s.end), LAMBDA end :
    then(IF s.step.kind = "None" THEN Yield(end, IntValue(1))
         ELSE evaluateExpr(end, s.step),
         LAMBDA step :
         IF start.val.t # "int" \/ end.val.t # "int" \/ step.val.t # "int"
         THEN Throw(step, "For loop bounds and step must be integers")
         ELSE IF step.val.i = 0 THEN Throw(step, "Step cannot be zero")
         ELSE forLoop([step EXCEPT
                         !.env = define(environmentEnterScope(@), s.iterator,
                                        start.val),
                         !.loops = Append(@, [start |-> start.val.i,
                                              end |-> end.val.i,
                                              step |-> step.val.i,
                                              iterations |-> << >>,
                                              finished |-> FALSE])],
                      s, start.val.i, Len(step.loops) + 1))))

\* executeStmt, SetStmt
executeSet(R, s) ==
    then(evaluateExpr(R, s.value), LAMBDA value :
    IF undefinedVariable(value.env, s.name) THEN Throw(value, "Undefined variable")
    ELSE [value EXCEPT !.env = assign(@, s.name, value.val)])

\* executeStmt, VarDeclStmt
executeVarDecl(R, s) ==
    then(evaluateExpr(R, s.init), LAMBDA value :
    [value EXCEPT !.env = define(@, s.name, value.val)])

\* executeStmt, SayStmt: std::cout << valueToString(value) << std::endl
executeSay(R, s) ==
    then(evaluateExpr(R, s.expr), LAMBDA value :
    [value EXCEPT !.out = Append(@, valueToString(value.val))])

\* executeStmt, ReturnStmt: throw the value
executeReturn(R, s) ==
    IF s.value.kind = "None" THEN [R EXCEPT !.sig = "return", !.val = Void]
    ELSE then(evaluateExpr(R, s.value), LAMBDA value : [value EXCEPT !.sig = "return"])

\* executeStmt of a statement counted in the history
executeCounted(R, s) ==
    CASE s.kind = "VarDecl"     -> executeVarDecl(R, s)
      [] s.kind = "Set"         -> executeSet(R, s)
      [] s.kind = "Say"         -> executeSay(R, s)
      [] s.kind = "FunctionDef" ->
            [R EXCEPT !.env = define(@, s.name, FunctionValue(s))]
      [] s.kind = "CallStmt"    -> evaluateCall(R, s.name, s.arguments)
      [] s.kind = "Return"      -> executeReturn(R, s)
      [] s.kind = "When"        -> executeWhen(R, s)
      [] s.kind = "While"       -> executeWhile(R, s)
      [] s.kind = "For"         -> executeFor(R, s)
      [] OTHER -> Throw(R, "Unknown statement type")

\* executeStmt; the history counts the call, and the model follows the
\* interpreter for MaxSteps calls
executeStmt(R, s) ==
    IF R.steps >= MaxSteps THEN [R EXCEPT !.sig = "cutoff"]
    ELSE executeCounted([R EXCEPT !.steps = @ + 1], s)

-----------------------------------------------------------------------------
(* The lexer pulled token by token (SpecLexer): main.cpp constructs the    *)
(* Lexer over the source text and calls getNextToken until END_OF_FILE.   *)

\* what a line of a source text holds after its indentation: an
\* identifier, the keyword then, nothing, a comment
LineTexts == {<<"a">>, <<"t", "h", "e", "n">>, << >>, <<"#">>}

Spaces(n) == [k \in 1 .. n |-> " "]

\* lines joined by newlines
RECURSIVE JoinLines(_)
JoinLines(ls) ==
    IF Len(ls) = 1 THEN Spaces(ls[1][1]) \o ls[1][2]
    ELSE Spaces(ls[1][1]) \o ls[1][2] \o <<"\n">> \o JoinLines(Tail(ls))

\* the first line is code at column 0; the other lines are any
LineSourcesOf(lines) ==
    {JoinLines(<<<<0, first>>>> \o rest) :
        first \in {<<"a">>, <<"t", "h", "e", "n">>},
        rest \in UNION {[1 .. n -> (0 .. MaxIndent) \X LineTexts] :
                            n \in 0 .. lines - 1}}

LineSources == LineSourcesOf(MaxLines)

\* one line more, all lines code: blocks nested three deep within the width
\* MaxIndent (a line after then opens a block at the same width)
DeepSources ==
    {JoinLines(<<<<0, <<"a">>>>>> \o rest) :
        rest \in [1 .. MaxLines ->
                    (0 .. MaxIndent) \X {<<"a">>, <<"t", "h", "e", "n">>}]}

\* strings and comments, closed and left open, and an unknown character,
\* alone or before an indented line
OddTexts ==
    {<<"\"", "a", "\"">>, <<"\"", "a">>, <<"'", "a">>,
     <<"/", "*", "a", "*", "/", "a">>, <<"/", "*", "a">>, <<"@">>,
     <<"a", "@", "a">>}
OddSources ==
    {JoinLines(<<<<0, text>>>>) : text \in OddTexts}
    \cup {JoinLines(<<<<0, text>>, <<1, <<"a">>>>>>) : text \in OddTexts}
    \cup {JoinLines(<<<<0, <<"a">>>>, <<1, text>>>>) : text \in OddTexts}

Sources == LineSources \cup DeepSources \cup OddSources

InitLexer ==
    /\ source \in Sources
    /\ lexer = NewLexer
    /\ tokens = << >>
    /\ IdleParser
    /\ IdleRun

LastToken == tokens[Len(tokens)]

\* main.cpp: do { token = lexer.getNextToken(); tokens.push_back(token); }
\* while (token.type != END_OF_FILE).  Once the lexer has popped or read an
\* empty indent stack its behaviour is undefined: the read yields any
\* value, and the process may stop at any call from then on.
GetNextToken ==
    /\ ~lexer.crashed
    /\ IF tokens = << >> THEN TRUE ELSE LastToken.type # "END_OF_FILE"
    /\ LET r == getNextToken(lexer, 0) IN
       IF r.lexer.crashed
       THEN lexer' = r.lexer /\ tokens' = tokens
       ELSE IF ~r.lexer.undefined
       THEN lexer' = r.lexer /\ tokens' = Append(tokens, r.token)
       ELSE \E v \in 0 .. MaxIndent, stops \in BOOLEAN :
              LET u == getNextToken(lexer, v) IN
              IF stops
              THEN lexer' = [u.lexer EXCEPT !.crashed = TRUE] /\ tokens' = tokens
              ELSE lexer' = u.lexer /\ tokens' = Append(tokens, u.token)
    /\ UNCHANGED <<source, parseVars, runVars>>

NextLexer == GetNextToken

SpecLexer == InitLexer /\ [][NextLexer]_vars

\* main's loop calls getNextToken again as long as it has not returned
\* END_OF_FILE; the sources with the most lines are the nested ones
InitLexerLive ==
    /\ source \in LineSourcesOf(MaxLines - 1) \cup DeepSources \cup OddSources
    /\ lexer = NewLexer
    /\ tokens = << >>
    /\ IdleParser
    /\ IdleRun

SpecLexerLive == InitLexerLive /\ [][NextLexer]_vars /\ WF_vars(NextLexer)

-----------------------------------------------------------------------------
(* The stages run one after the other over a program (Spec): the parser,   *)
(* the semantic analyzer on the parser's scope table, the interpreter      *)
(* statement by statement.  A stage that throws stops the run.             *)

Ints == (0 - MaxInt) .. MaxInt

Num(n) == LiteralExpr("NUMBER", to_string(n))
StringLit(cs) == LiteralExpr("STRING", cs)
Var(n) == VariableExpr(n)
Call(n, args) == CallExpr("paren", n, args)
Say(e) == SayStmt(e)
When1(cond, body) == WhenStmt(<<Branch(cond, body)>>)
Function(n, body) == FunctionDefStmt(n, << >>, body)

\* repeat for i from s to e [step k]: say i
SayLoops ==
    {<<ForStmt("i", Num(s), Num(e), step, <<Say(Var("i"))>>)>> :
        s \in Ints, e \in Ints, step \in {NoExpr} \cup {Num(k) : k \in Ints}}

\* the same with a body that goes on to set the iterator
ForPrograms ==
    SayLoops \cup
    {<<ForStmt("i", Num(s), Num(e), Num(k),
           <<Say(Var("i")), SetStmt("i", Num(0))>>)>> :
        s \in Ints, e \in Ints, k \in {0 - 1, 1}}

\* a for loop in a function that returns from inside the loop once i >= 0
ForInFunctionPrograms ==
    {<<Function("f",
           <<ForStmt("i", Num(s), Num(e), Num(k),
                 <<Say(Var("i")),
                   When1(BinaryExpr(Var("i"), "GREATER_EQUAL", Num(0)),
                         <<ReturnStmt(Var("i"))>>)>>)>>),
       Say(Call("f", << >>))>> :
        s \in Ints, e \in Ints, k \in {0 - 1, 1}}

\* function bodies that return at the top level, from inside blocks, or
\* fall through
Return1 == ReturnStmt(Num(1))
ReturnBodies ==
    {<<Return1>>,
     <<ReturnStmt(NoExpr)>>,
     <<Say(Num(1))>>,
     <<When1(Num(0), <<Return1>>)>>,
     <<When1(Num(1), <<Return1>>)>>,
     <<WhileStmt(Num(1), <<Return1>>)>>,
     <<ForStmt("i", Num(1), Num(2), NoExpr, <<Return1>>)>>,
     <<When1(Num(1), <<When1(Num(1), <<Return1>>)>>)>>}

CallSites(call) ==
    {<<CallStmt(call.name, call.arguments)>>,
     <<Say(call)>>,
     <<VarDeclStmt("x", call, "NONE")>>}

\* define function f, then two calls of it
ReturnPrograms ==
    {<<Function("f", body)>> \o first \o second :
        body \in ReturnBodies,
        first \in CallSites(Call("f", << >>)),
        second \in CallSites(Call("f", << >>))}

\* the statements a division l / r is put in
DivisionSites(e) ==
    {<<Say(e)>>,
     <<VarDeclStmt("x", e, "NONE")>>,
     <<When1(e, <<Say(Num(1))>>)>>,
     <<When1(Num(1), <<Say(e)>>)>>,
     <<WhileStmt(Num(1), <<Say(e)>>)>>,
     <<ForStmt("i", e, Num(1), NoExpr, <<Say(Var("i"))>>)>>,
     <<ForStmt("i", Num(1), Num(2), NoExpr, <<Say(e)>>)>>,
     <<Function("f", <<Say(e)>>), CallStmt("f", << >>)>>,
     <<Function("f", <<ReturnStmt(e)>>), Say(Call("f", << >>))>>,
     <<Function("f", <<When1(Num(1), <<Say(e)>>)>>),
       Function("g", <<CallStmt("f", << >>), Say(Num(2))>>),
       CallStmt("g", << >>)>>}

\* say 1, a statement with a division, say 2
DivisionPrograms ==
    {<<Say(Num(1))>> \o site \o <<Say(Num(2))>> :
        site \in UNION {DivisionSites(BinaryExpr(Num(l), "SLASH", Num(r))) :
                            l \in Ints, r \in {0, 1}}}

\* the statements a comparison is put in
ComparisonSites(e) ==
    {Say(e), VarDeclStmt("z", e, "NONE"), SetStmt("x", e),
     When1(e, <<Say(Num(1))>>)}

Operands == {Var("x"), Var("y"), Num(1), StringLit(<<"b">>)}

\* let x = 1, let y = "a", a statement with the comparison l op r
ComparisonProgramsOf(l, r) ==
    {<<VarDeclStmt("x", Num(1), "NONE"),
       VarDeclStmt("y", StringLit(<<"a">>), "NONE"),
       site>> :
        site \in UNION {ComparisonSites(BinaryExpr(l, op, r)) : op \in Comparison}}

ComparisonPrograms ==
    UNION {ComparisonProgramsOf(l, r) : l \in Operands, r \in Operands}

\* the statements a call of f is put in
AritySites(call) ==
    {<<CallStmt(call.name, call.arguments)>>,
     <<Say(call)>>,
     <<VarDeclStmt("z", call, "NONE")>>,
     <<SetStmt("x", call)>>,
     <<When1(call, <<Say(Num(1))>>)>>,
     <<WhileStmt(call, <<Say(Num(1))>>)>>,
     <<ForStmt("i", Num(1), call, NoExpr, <<Say(Var("i"))>>)>>,
     <<Function("g", <<ReturnStmt(call)>>), Say(Call("g", << >>))>>}

Parameters == {<< >>, <<"p">>, <<"p", "q">>}
Arguments == {<< >>, <<Num(1)>>, <<Num(1), Num(1)>>}

\* say 1, let x = 1, define function f with the parameters, a statement
\* calling f with the arguments
ArityProgramsOf(params, args) ==
    {<<Say(Num(1)), VarDeclStmt("x", Num(1), "NONE"),
       FunctionDefStmt("f", params, <<ReturnStmt(Num(0))>>)>> \o site :
        site \in UNION {AritySites(CallExpr(form, "f", args)) :
                            form \in {"paren", "keyword"}}}

ArityPrograms ==
    UNION {ArityProgramsOf(params, args) : params \in Parameters, args \in Arguments}

\* x is declared in the body of a for loop only; after the loop has ended
\* x is read in a when branch, in the body of a later loop, or in the body
\* of a function called from the global scope
DeclareInLoop(n) ==
    ForStmt("i", Num(1), Num(1), NoExpr, <<VarDeclStmt("x", Num(n), "NONE")>>)
ExitedScopePrograms ==
    UNION {{<<DeclareInLoop(n), When1(Num(1), <<Say(Var("x"))>>)>>,
            <<DeclareInLoop(n),
              ForStmt("i", Num(1), Num(1), NoExpr, <<Say(Var("x"))>>)>>,
            <<DeclareInLoop(n),
              Function("f", <<ReturnStmt(Var("x"))>>),
              Say(Call("f", << >>))>>} : n \in 1 .. 2}

\* a when statement of up to MaxBranches branches: the conditions are 0,
\* a number that is not 0, or a division by 0; a branch after the first
\* may be an otherwise; the body of branch k prints k
MaxBranches == 3
Conditions ==
    {Num(0), Num(1), Num(0 - 1), BinaryExpr(Num(1), "SLASH", Num(0))}
BranchesOf(n) ==
    {[k \in 1 .. n |-> Branch(c[k], <<Say(Num(k))>>)] :
        c \in {cs \in [1 .. n -> Conditions \cup {NoExpr}] : cs[1] # NoExpr}}
WhenPrograms ==
    UNION {{<<WhenStmt(bs), Say(Num(0))>> : bs \in BranchesOf(n)} :
              n \in 1 .. MaxBranches}

\* when n < 1 then return 1 end, and the call f(n - 1)
Less(l, r) == BinaryExpr(l, "LESS", r)
Times(l, r) == BinaryExpr(l, "STAR", r)
Recurse == Call("f", <<BinaryExpr(Var("n"), "MINUS", Num(1))>>)
BaseCase == When1(Less(Var("n"), Num(1)), <<Return1>>)

\* programs that read a variable after a call has returned, each with what
\* the language prints: f(n) returns 1 from inside a when for n < 1; else
\* it calls f(n - 1) and then reads its parameter n.  The caller of the
\* last three has a variable of its own, with the callee's parameter name
\* or assigned by the callee.
FrameRun(statements, out) == [program |-> statements, out |-> out]
Countdown == [a \in 1 .. 2 |-> [k \in 1 .. a |-> to_string(k)]]
FrameRuns ==
    UNION {{FrameRun(<<FunctionDefStmt("f", <<"n">>, body),
                       CallStmt("f", <<Num(a)>>)>>,
                     Countdown[a]) :
               body \in {<<BaseCase, Say(Times(Var("n"), Recurse)), Return1>>,
                         <<BaseCase, Say(Times(Recurse, Var("n"))), Return1>>,
                         <<BaseCase, CallStmt("f", Recurse.arguments),
                           Say(Var("n")), Return1>>}} : a \in 1 .. 2}
    \cup {FrameRun(<<FunctionDefStmt("f", <<"n">>, <<BaseCase>>),
                     VarDeclStmt("n", Num(2), "NONE"),
                     CallStmt("f", <<Num(0)>>), Say(Var("n"))>>,
                   <<to_string(2)>>),
          FrameRun(<<FunctionDefStmt("f", <<"n">>, <<Return1>>),
                     VarDeclStmt("n", Num(2), "NONE"),
                     CallStmt("f", <<Num(0)>>), Say(Var("n"))>>,
                   <<to_string(2)>>),
          FrameRun(<<VarDeclStmt("x", Num(1), "NONE"),
                     FunctionDefStmt("f", <<"n">>, <<SetStmt("x", Var("n"))>>),
                     CallStmt("f", <<Num(2)>>), Say(Var("x"))>>,
                   <<to_string(2)>>)}
FramePrograms == {r.program : r \in FrameRuns}

\* define function f(p) returning p + 1 or p, then a call of f with a
\* number or a string as a let initializer, a call statement or a when
\* condition
ArgumentPrograms ==
    {<<FunctionDefStmt("f", <<"p">>, <<ReturnStmt(value)>>), site>> :
        value \in {BinaryExpr(Var("p"), "PLUS", Num(1)), Var("p")},
        site \in UNION {{VarDeclStmt("z", Call("f", <<arg>>), "NONE"),
                         CallStmt("f", <<arg>>),
                         When1(Call("f", <<arg>>), <<Say(Num(1))>>)} :
                            arg \in {Num(1), StringLit(<<"s">>)}}}

\* programs with throw and try, each with the run the language gives it:
\* whether the interpretation ends normally, and what it has printed
Raise(v) == ThrowStmt(StringLit(<<v>>))
Try(body) == TryCatchStmt(body, "e", <<Say(Var("e"))>>)
TryRun(statements, completes, out) ==
    [program |-> statements, completes |-> completes, out |-> out]
TryRuns ==
    UNION {{TryRun(<<Try(<<Raise(v), Say(Num(1))>>), Say(Num(2))>>,
                   TRUE, <<<<v>>, to_string(2)>>),
            TryRun(<<Try(<<Say(Num(1))>>), Say(Num(2))>>,
                   TRUE, <<to_string(1), to_string(2)>>),
            TryRun(<<Try(<<Try(<<Raise(v)>>), Say(Num(1))>>), Say(Num(2))>>,
                   TRUE, <<<<v>>, to_string(1), to_string(2)>>),
            TryRun(<<Function("f", <<Raise(v)>>),
                     Try(<<CallStmt("f", << >>), Say(Num(1))>>), Say(Num(2))>>,
                   TRUE, <<<<v>>, to_string(2)>>),
            TryRun(<<Say(Num(1)), Raise(v), Say(Num(2))>>,
                   FALSE, <<to_string(1)>>),
            TryRun(<<Try(<<Say(Num(1))>>), Raise(v), Say(Num(2))>>,
                   FALSE, <<to_string(1)>>)} : v \in {"a", "b"}}
TryPrograms ==
    {r.program : r \in TryRuns} \cup {<<Try(<<ThrowStmt(Num(1))>>)>>}

Programs ==
    ForPrograms \cup ForInFunctionPrograms \cup ReturnPrograms
    \cup DivisionPrograms \cup ComparisonPrograms \cup ArityPrograms
    \cup ExitedScopePrograms \cup WhenPrograms \cup TryPrograms
    \cup FramePrograms \cup ArgumentPrograms

Init ==
    /\ IdleLexer
    /\ IdleParser
    /\ input \in Programs
    /\ stage = [at |-> "start", error |-> ""]
    /\ interp = NewInterpreter

\* Parser(tokens).parse()
Parse ==
    /\ stage.at = "start"
    /\ LET r == parseProgram(input) IN
       /\ symbolTable' = r.st
       /\ stage' = IF r.ok THEN [at |-> "parsed", error |-> ""]
                   ELSE [at |-> "parse_error", error |-> r.err]
       /\ program' = IF r.ok THEN input ELSE << >>
    /\ UNCHANGED <<lexVars, parseStatus, blocks, lastStmt, input, interp>>

\* SemanticAnalyzer(symbolTable).analyze(program)
Analyze ==
    /\ stage.at = "parsed"
    /\ LET a == analyze(symbolTable, program) IN
       /\ symbolTable' = a.st
       /\ program' = a.node
       /\ stage' = CASE a.thrown = "" -> [at |-> "analyzed", error |-> ""]
                     [] a.thrown = "SemanticError" ->
                            [at |-> "semantic_error", error |-> a.error]
                     [] OTHER -> [at |-> "analysis_aborted", error |-> a.error]
    /\ UNCHANGED <<lexVars, parseStatus, blocks, lastStmt, input, interp>>

\* Interpreter::interpret, one turn of its loop: for (stmt : statements)
\* executeStmt(stmt).  An exception ends the run: a runtime_error, or the
\* Value a return outside any call throws.
InterpretStmt ==
    /\ stage.at \in {"analyzed", "running"}
    /\ interp.pc < Len(program)
    /\ LET R == executeStmt(interp, program[interp.pc + 1]) IN
       /\ interp' = IF R.sig = "none" THEN [R EXCEPT !.pc = @ + 1] ELSE R
       /\ stage' = CASE R.sig = "error"  -> [at |-> "runtime_error", error |-> R.err]
                     [] R.sig = "return" -> [at |-> "terminated", error |-> ""]
                     [] R.sig = "cutoff" -> [at |-> "cutoff", error |-> ""]
                     [] OTHER -> [at |-> IF interp.pc + 1 = Len(program)
                                         THEN "done" ELSE "running",
                                  error |-> ""]
    /\ UNCHANGED <<lexVars, parseVars, input>>

Next ==
    \/ Parse
    \/ Analyze
    \/ InterpretStmt

Spec == Init /\ [][Next]_vars

-----------------------------------------------------------------------------
(* The scope table or the runtime environment under any sequence of calls  *)
(* of its operations (SpecScopes).  stage.at names the operation called    *)
(* last, stage.error the message of the exception it threw, if any.        *)

\* the name the operations are called with, and the values bound to it
ScopeName == "f"
ScopeValues == {IntValue(0), IntValue(1)}

\* the run is over an Environment (an Interpreter was constructed) or over
\* the SymbolTable
OverEnvironment == "env" \in DOMAIN interp

InitScopes ==
    /\ IdleLexer
    /\ IdleParser
    /\ input = << >>
    /\ stage = [at |-> "constructed", error |-> ""]
    /\ interp \in {[pc |-> 0], NewInterpreter}

Called(op, error) ==
    /\ stage' = [at |-> op, error |-> error]
    /\ UNCHANGED <<lexVars, parseStatus, blocks, lastStmt, program, input>>

TableEnterScope ==
    /\ ~OverEnvironment
    /\ Len(symbolTable.scopes) < MaxScopes
    /\ symbolTable' = enterScope(symbolTable)
    /\ Called("table.enterScope", "")
    /\ UNCHANGED interp

TableExitScope ==
    /\ ~OverEnvironment
    /\ symbolTable' = exitScope(symbolTable)
    /\ Called("table.exitScope",
              IF exitScopeThrows(symbolTable) THEN "Cannot exit global scope" ELSE "")
    /\ UNCHANGED interp

TableAddSymbol ==
    /\ ~OverEnvironment
    /\ symbolTable' = addSymbol(symbolTable, ScopeName, "FUNCTION", << >>)
    /\ Called("table.addSymbol", "")
    /\ UNCHANGED interp

TableUpdateSymbolType ==
    /\ ~OverEnvironment
    /\ symbolTable' = IF updateSymbolTypeThrows(symbolTable, ScopeName)
                      THEN symbolTable
                      ELSE updateSymbolType(symbolTable, ScopeName, "INTEGER")
    /\ Called("table.updateSymbolType",
              IF updateSymbolTypeThrows(symbolTable, ScopeName)
              THEN "Symbol not found" ELSE "")
    /\ UNCHANGED interp

TableUpdateSymbolReturnType ==
    /\ ~OverEnvironment
    /\ symbolTable' = IF updateSymbolReturnTypeThrows(symbolTable, ScopeName)
                      THEN symbolTable
                      ELSE updateSymbolReturnType(symbolTable, ScopeName, "INTEGER")
    /\ Called("table.updateSymbolReturnType",
              IF updateSymbolReturnTypeThrows(symbolTable, ScopeName)
              THEN "Symbol not found" ELSE "")
    /\ UNCHANGED interp

EnvEnterScope ==
    /\ OverEnvironment
    /\ Len(interp.env.scopes) < MaxScopes
    /\ interp' = [interp EXCEPT !.env = environmentEnterScope(@)]
    /\ Called("env.enterScope", "")
    /\ UNCHANGED symbolTable

EnvExitScope ==
    /\ OverEnvironment
    /\ interp' = IF environmentExitScopeThrows(interp.env) THEN interp
                 ELSE [interp EXCEPT !.env = environmentExitScope(@)]
    /\ Called("env.exitScope",
              IF environmentExitScopeThrows(interp.env)
              THEN "Cannot exit global scope" ELSE "")
    /\ UNCHANGED symbolTable

EnvDefine ==
    /\ OverEnvironment
    /\ \E value \in ScopeValues :
         interp' = [interp EXCEPT !.env = define(@, ScopeName, value)]
    /\ Called("env.define", "")
    /\ UNCHANGED symbolTable

EnvAssign ==
    /\ OverEnvironment
    /\ \E value \in ScopeValues :
         interp' = IF undefinedVariable(interp.env, ScopeName) THEN interp
                   ELSE [interp EXCEPT !.env = assign(@, ScopeName, value)]
    /\ Called("env.assign",
              IF undefinedVariable(interp.env, ScopeName)
              THEN "Undefined variable" ELSE "")
    /\ UNCHANGED symbolTable

NextScopes ==
    \/ TableEnterScope
    \/ TableExitScope
    \/ TableAddSymbol
    \/ TableUpdateSymbolType
    \/ TableUpdateSymbolReturnType
    \/ EnvEnterScope
    \/ EnvExitScope
    \/ EnvDefine
    \/ EnvAssign

SpecScopes == InitScopes /\ [][NextScopes]_vars

-----------------------------------------------------------------------------
(* Claims about the scope table and the environment, checked under         *)
(* SpecScopes                                                              *)

\* the current-scope index is an index into the list of scopes, which
\* holds the global scope
ValidScopeIndex(t) ==
    /\ Len(t.scopes) >= 1
    /\ t.currentScope \in 0 .. Len(t.scopes) - 1

\* C11: for the scope table and for the environment, under any sequence of
\* enterScope / exitScope calls the current-scope index is always an index
\* into the list of scopes (the global scope is never popped), and
\* exitScope called in the global scope raises an error and leaves the
\* current scope and all bindings unchanged.
C11_GlobalScopeNeverPopped ==
    /\ [](/\ ValidScopeIndex(symbolTable)
          /\ OverEnvironment => ValidScopeIndex(interp.env))
    /\ [][/\ stage'.at = "table.exitScope" /\ symbolTable.currentScope = 0
              => /\ stage'.error = "Cannot exit global scope"
                 /\ symbolTable' = symbolTable
          /\ stage'.at = "env.exitScope" /\ interp.env.currentScope = 0
              => /\ stage'.error = "Cannot exit global scope"
                 /\ interp'.env = interp.env]_vars

\* C11 happens: exitScope was called in the global scope of a table that
\* has entered scopes and holds a binding
C11_ExitScopeRefusedInGlobalScope ==
    /\ stage.at = "table.exitScope"
    /\ stage.error = "Cannot exit global scope"
    /\ Len(symbolTable.scopes) > 1
    /\ ScopeName \in DOMAIN symbolTable.scopes[1]

\* the table after an update of the given field of the entry that getSymbol
\* returns: the innermost scope, from the current one out to the global
\* one, that holds the name
InnermostTypeUpdate(t, name, type) ==
    [t EXCEPT !.scopes[Max(ActiveHolders(t, name)) + 1][name].type = type]
InnermostReturnTypeUpdate(t, name, type) ==
    [t EXCEPT !.scopes[Max(ActiveHolders(t, name)) + 1][name].returnType = type]
InnermostAssign(env, name) ==
    {[env EXCEPT !.scopes[Max(Holders(env, name)) + 1][name] = value] :
        value \in ScopeValues}

\* C12: every operation resolves a name to the entry of the innermost
\* active scope that holds it: updateSymbolType and updateSymbolReturnType
\* fail exactly when getSymbol fails (no scope from the current one out to
\* the global one holds the name) and otherwise write the entry getSymbol
\* returns and nothing else; the environment's assign does the same with
\* respect to get.
C12_AllOperationsResolveInnermostActive ==
    [][/\ stage'.at = "table.updateSymbolType" =>
            IF getSymbolThrows(symbolTable, ScopeName)
            THEN stage'.error # "" /\ symbolTable' = symbolTable
            ELSE /\ stage'.error = ""
                 /\ symbolTable' =
                      InnermostTypeUpdate(symbolTable, ScopeName, "INTEGER")
       /\ stage'.at = "table.updateSymbolReturnType" =>
            IF getSymbolThrows(symbolTable, ScopeName)
            THEN stage'.error # "" /\ symbolTable' = symbolTable
            ELSE /\ stage'.error = ""
                 /\ symbolTable' =
                      InnermostReturnTypeUpdate(symbolTable, ScopeName, "INTEGER")
       /\ stage'.at = "env.assign" =>
            IF undefinedVariable(interp.env, ScopeName)
            THEN stage'.error # "" /\ interp'.env = interp.env
            ELSE /\ stage'.error = ""
                 /\ interp'.env \in InnermostAssign(interp.env, ScopeName)]_vars

-----------------------------------------------------------------------------
(* Interpreter.cpp: lists, dictionaries and index assignment, run over one *)
(* variable (SpecIndex).  stage.at names the statement executed last,      *)
(* stage.error the message of the exception it threw, input its operands.  *)

MaxLen == 2
ListName == "xs"
Keys == {<<"a">>, <<"b">>}
ElementValues == {IntValue(0), IntValue(1)}

\* using List = std::vector<Value>; using Dict = unordered_map<string, Value>
\* (entries: the set of the <<key, value>> pairs of the map)
ListValue(es) ==
    [t |-> "list", i |-> 0, s |-> << >>, f |-> NoFunction,
     elements |-> es, entries |-> {}]
DictValue(ps) ==
    [t |-> "dict", i |-> 0, s |-> << >>, f |-> NoFunction,
     elements |-> << >>, entries |-> ps]

\* the result of an evaluation: a value, or the message of a runtime_error
Evaluated(value) == [thrown |-> "", value |-> value]
RuntimeError(msg) == [thrown |-> msg, value |-> Void]

\* dict.find(key) and the value found
HasKey(dict, key) == \E p \in dict.entries : p[1] = key
ValueAt(dict, key) == (CHOOSE p \in dict.entries : p[1] = key)[2]

\* evaluateExpr, IndexExpr, once base and index are evaluated
evaluateIndex(base, idx) ==
    CASE base.t = "list" ->
           IF idx.t # "int" THEN RuntimeError("List index must be an integer")
           ELSE IF idx.i < 0 \/ idx.i >= Len(base.elements)
                THEN RuntimeError("List index out of bounds")
                ELSE Evaluated(base.elements[idx.i + 1])
      [] base.t = "dict" ->
           IF idx.t # "string"
           THEN RuntimeError("Dictionary key must be a string")
           ELSE IF ~HasKey(base, idx.s)
                THEN RuntimeError("Key not found in dictionary")
                ELSE Evaluated(ValueAt(base, idx.s))
      [] OTHER -> RuntimeError("Index operation on non-list/dict value")

\* list[i] = value / dict[key] = value on a Value
IndexAssigned(base, idx, value) ==
    IF base.t = "list"
    THEN [base EXCEPT !.elements[idx.i + 1] = value]
    ELSE [base EXCEPT !.entries =
            {p \in @ : p[1] # idx.s} \cup {<<idx.s, value>>}]

\* executeStmt, IndexAssignStmt: the target expression NAME[idx] is
\* evaluated first; then base, a local COPY of the variable's value
\* (Value base = env.get(name)), is checked and written; the environment
\* is not written
executeIndexAssign(env, name, idx, value) ==
    LET target == evaluateIndex(get(env, name), idx)
        base   == get(env, name)
    IN  IF target.thrown # ""
        THEN [env |-> env, base |-> base, thrown |-> target.thrown]
        ELSE CASE base.t = "list" ->
                    IF idx.t # "int"
                    THEN [env |-> env, base |-> base,
                          thrown |-> "List index must be an integer"]
                    ELSE IF idx.i < 0 \/ idx.i >= Len(base.elements)
                         THEN [env |-> env, base |-> base,
                               thrown |-> "List index out of bounds"]
                         ELSE [env |-> env,
                               base |-> IndexAssigned(base, idx, value),
                               thrown |-> ""]
               [] base.t = "dict" ->
                    IF idx.t # "string"
                    THEN [env |-> env, base |-> base,
                          thrown |-> "Dictionary key must be a string"]
                    ELSE [env |-> env,
                          base |-> IndexAssigned(base, idx, value),
                          thrown |-> ""]
               [] OTHER ->
                    [env |-> env, base |-> base,
                     thrown |-> "Index assignment to non-list/dict value"]

\* the values of the list and dictionary literals, and an integer
Lists == UNION {[1 .. n -> ElementValues] : n \in 0 .. MaxLen}
Dicts ==
    {ps \in SUBSET (Keys \X ElementValues) :
        \A p, q \in ps : p[1] = q[1] => p = q}
Containers ==
    {ListValue(es) : es \in Lists} \cup {DictValue(ps) : ps \in Dicts}
        \cup {IntValue(0)}
Indices ==
    {IntValue(n) : n \in -1 .. MaxLen} \cup {StringValue(k) : k \in Keys}

InitIndex ==
    /\ IdleLexer
    /\ IdleParser
    /\ input = << >>
    /\ stage = [at |-> "constructed", error |-> ""]
    /\ interp = NewInterpreter

\* let xs = <list literal, dict literal or number>
ExecuteLet ==
    /\ \E value \in Containers :
         interp' = [interp EXCEPT !.env = define(@, ListName, value)]
    /\ stage' = [at |-> "let", error |-> ""]
    /\ input' = << >>
    /\ UNCHANGED <<lexVars, parseVars>>

\* set xs[idx] = value (the parser refuses an undeclared name)
ExecuteIndexAssign ==
    /\ ~undefinedVariable(interp.env, ListName)
    /\ \E idx \in Indices, value \in ElementValues :
         LET done == executeIndexAssign(interp.env, ListName, idx, value)
         IN  /\ interp' = [interp EXCEPT !.env = done.env]
             /\ stage' = [at |-> "set[]", error |-> done.thrown]
             /\ input' = <<idx, value>>
    /\ UNCHANGED <<lexVars, parseVars>>

\* the expression xs[idx] is evaluated
EvaluateIndex ==
    /\ ~undefinedVariable(interp.env, ListName)
    /\ \E idx \in Indices :
         LET read == evaluateIndex(get(interp.env, ListName), idx)
         IN  /\ interp' = [interp EXCEPT !.val = read.value]
             /\ stage' = [at |-> "[]", error |-> read.thrown]
             /\ input' = <<idx>>
    /\ UNCHANGED <<lexVars, parseVars>>

NextIndex ==
    \/ ExecuteLet
    \/ ExecuteIndexAssign
    \/ EvaluateIndex

SpecIndex == InitIndex /\ [][NextIndex]_vars

\* C13: after set NAME[i] = v has executed without error, a read of
\* NAME[i] yields v, and a read of any other index or key yields what it
\* yielded before the statement.
C13_IndexAssignmentIsReadBack ==
    [][stage'.at = "set[]" /\ stage'.error = "" =>
         /\ evaluateIndex(get(interp'.env, ListName), input'[1])
              = Evaluated(input'[2])
         /\ \A other \in Indices \ {input'[1]} :
              evaluateIndex(get(interp'.env, ListName), other)
                = evaluateIndex(get(interp.env, ListName), other)]_vars

-----------------------------------------------------------------------------
(* Parser.cpp over the token vector: the recursive descent as it reads the *)
(* tokens main handed to Parser(tokens).  P is the parser: its position    *)
(* in the vector, its symbol table, the exception in flight, and what the  *)
(* production that returned last has built.                                *)

\* Parser(tokens): current = 0, an empty symbol table
NewParser ==
    [current |-> 0, symbolTable |-> NewSymbolTable, thrown |-> "", error |-> "",
     built |-> [kind |-> "none", type |-> "NONE"],
     parameters |-> << >>, statements |-> << >>]

\* isAtEnd: current >= tokens.size()
atEndOfTokens(P) == P.current >= Len(tokens)

\* peek: the token at current, END_OF_FILE past the end of the vector
tokenAt(P) ==
    IF atEndOfTokens(P) THEN Token("END_OF_FILE", << >>, 0)
    ELSE tokens[P.current + 1]

\* peekNext
tokenAfter(P) ==
    IF P.current + 1 < Len(tokens) THEN tokens[P.current + 2]
    ELSE Token("END_OF_FILE", << >>, 0)

\* previous: tokens[current - 1]
previous(P) == tokens[P.current]

\* advance: if (!isAtEnd()) current++
advanceToken(P) == IF atEndOfTokens(P) THEN P ELSE [P EXCEPT !.current = @ + 1]

check(P, type) == tokenAt(P).type = type

checkNext(P, type) == tokenAfter(P).type = type

\* the tokens synchronize stops at
SynchronizeStops ==
    {"NEWLINE", "END", "LET", "SET", "MATCH", "REPEAT", "WHEN", "SAY", "CASE",
     "DEFINE", "CALL", "DEDENT", "TRY", "END_OF_FILE"}

\* synchronize: skip to the next token a statement can start or end at
RECURSIVE synchronize(_)
synchronize(P) ==
    IF atEndOfTokens(P) \/ tokenAt(P).type \in SynchronizeStops THEN P
    ELSE synchronize(advanceToken(P))

\* throw ParserError(token, message)
ThrowParserError(P, message) ==
    [P EXCEPT !.thrown = "ParserError", !.error = message]

\* the rest of a production, skipped while an exception is in flight
andThen(P, K(_)) == IF P.thrown # "" THEN P ELSE K(P)

\* if (!match(type)) throw ParserError(peek(), message); and the rest
expect(P, type, message, K(_)) ==
    IF check(P, type) THEN K(advanceToken(P)) ELSE ThrowParserError(P, message)

\* while (match(TokenType::NEWLINE)) {}
RECURSIVE skipNewlines(_)
skipNewlines(P) ==
    IF check(P, "NEWLINE") THEN skipNewlines(advanceToken(P)) ELSE P

\* the node a production returns: its class, and for a literal its token type
Built(P, kind, type) == [P EXCEPT !.built = [kind |-> kind, type |-> type]]

\* a statement production's end: trailing NEWLINE tokens and the node
StmtBuilt(P, kind) == Built(skipNewlines(P), kind, "NONE")

enterScopeOf(P) == [P EXCEPT !.symbolTable = enterScope(@)]

\* symbolTable.exitScope(), which throws std::runtime_error in the global
\* scope
exitScopeOf(P) ==
    IF exitScopeThrows(P.symbolTable)
    THEN [P EXCEPT !.thrown = "runtime_error", !.error = "Cannot exit global scope"]
    ELSE [P EXCEPT !.symbolTable = exitScope(@)]

\* the binary operators parseBinaryExpr continues at
BinaryOperators ==
    {"PLUS", "MINUS", "STAR", "SLASH", "GREATER", "LESS", "GREATER_EQUAL",
     "LESS_EQUAL", "NOT_EQUAL", "EQUAL"}

\* the tokens parseStmtList stops at
StmtListStops == {"DEDENT", "END", "CASE", "OTHERWISE", "END_OF_FILE"}

\* a parseStmt that passes over a token no statement starts at
SkippedStatement(P) == Built(advanceToken(P), "none", "NONE")

\* parseStmt's last line: no statement starts at this token
ExpectedStatement(P) ==
    ThrowParserError(P, "Expected statement (let, set, when, say, match, or repeat)")

\* parsePrimary's last line: no expression starts at this token
ExpectedExpression(P) == ThrowParserError(P, "Expected expression")

RECURSIVE parseExprAt(_)
RECURSIVE parseBinaryRest(_)
RECURSIVE parsePrimaryAt(_)
RECURSIVE parseArgumentsAt(_)
RECURSIVE parseDictEntries(_)
RECURSIVE parseStmtAt(_)
RECURSIVE parseStmtBody(_)
RECURSIVE parseStmtListAt(_)
RECURSIVE parseWhenBranches(_)
RECURSIVE parseMatchCases(_, _)

\* do { arguments.push_back(parseExpr()); } while (match(COMMA));
parseArgumentsAt(P) ==
    andThen(parseExprAt(P), LAMBDA Q :
        IF check(Q, "COMMA") THEN parseArgumentsAt(advanceToken(Q)) ELSE Q)

\* the arguments of a call up to its ')'
parseCallArguments(P, message) ==
    andThen(IF check(P, "RIGHT_PAREN") THEN P ELSE parseArgumentsAt(P), LAMBDA Q :
        expect(Q, "RIGHT_PAREN", message, LAMBDA R : Built(R, "Call", "NONE")))

\* parsePrimary, IDENTIFIER or UNDERSCORE followed by '(' (consumed)
parsePrimaryCall(P, name) ==
    IF ~symbolExists(P.symbolTable, name.lexeme)
    THEN ThrowParserError(P, "Function not declared")
    ELSE IF getSymbol(P.symbolTable, name.lexeme).type # "FUNCTION"
    THEN ThrowParserError(P, "is not a function")
    ELSE parseCallArguments(P, "Expected ')' after function arguments")

\* parseIndexExpr: the '[' is consumed
parseIndexExprAt(P) ==
    andThen(parseExprAt(P), LAMBDA Q :
        expect(Q, "RIGHT_BRACKET", "Expected ']' after index expression",
               LAMBDA R : Built(R, "Index", "NONE")))

\* parsePrimary, IDENTIFIER or UNDERSCORE (consumed)
parsePrimaryName(P) ==
    LET name == previous(P) IN
    IF check(P, "LEFT_PAREN") THEN parsePrimaryCall(advanceToken(P), name)
    ELSE IF ~symbolExists(P.symbolTable, name.lexeme)
    THEN ThrowParserError(P, "Variable or function not declared")
    ELSE IF check(P, "LEFT_BRACKET") THEN parseIndexExprAt(advanceToken(P))
    ELSE Built(P, "Variable", "NONE")

\* parseListLiteral: the '[' is consumed
parseListLiteralAt(P) ==
    andThen(IF check(P, "RIGHT_BRACKET") THEN P ELSE parseArgumentsAt(P), LAMBDA Q :
        expect(Q, "RIGHT_BRACKET", "Expected ']' after list literal",
               LAMBDA R : Built(R, "ListLiteral", "NONE")))

\* do { key ':' value } while (match(COMMA));
parseDictEntries(P) ==
    andThen(parseExprAt(P), LAMBDA K :
        expect(K, "COLON", "Expected ':' in dict literal", LAMBDA C :
            andThen(parseExprAt(C), LAMBDA V :
                IF check(V, "COMMA") THEN parseDictEntries(advanceToken(V)) ELSE V)))

\* parseDictLiteral: the '{' is consumed
parseDictLiteralAt(P) ==
    andThen(IF check(P, "RIGHT_BRACE") THEN P ELSE parseDictEntries(P), LAMBDA Q :
        expect(Q, "RIGHT_BRACE", "Expected '}' after dict literal",
               LAMBDA R : Built(R, "DictLiteral", "NONE")))

\* parsePrimary, the keyword call: 'call' is consumed; the name is not
\* looked up
parsePrimaryCallKeywordAt(P0) ==
    LET P == advanceToken(P0) IN
    IF previous(P).type # "IDENTIFIER"
    THEN ThrowParserError(P, "Expected function name after 'call'")
    ELSE expect(P, "LEFT_PAREN", "Expected '(' after function name", LAMBDA Q :
            parseCallArguments(Q, "Expected ')' after arguments"))

parsePrimaryAt(P) ==
    LET A == advanceToken(P) IN
    IF check(P, "NUMBER") THEN Built(A, "Literal", "NUMBER")
    ELSE IF check(P, "STRING") THEN Built(A, "Literal", "STRING")
    ELSE IF check(P, "MINUS")
    THEN IF check(A, "NUMBER") THEN Built(advanceToken(A), "Literal", "NUMBER")
         ELSE ThrowParserError(A, "Expected number after unary minus")
    ELSE IF check(P, "IDENTIFIER") \/ check(P, "UNDERSCORE") THEN parsePrimaryName(A)
    ELSE IF check(P, "LEFT_BRACKET") THEN parseListLiteralAt(A)
    ELSE IF check(P, "LEFT_BRACE") THEN parseDictLiteralAt(A)
    ELSE IF check(P, "LEFT_PAREN")
    THEN andThen(parseExprAt(A), LAMBDA Q :
            expect(Q, "RIGHT_PAREN", "Expected ')' after expression",
                   LAMBDA R : Built(R, "Paren", "NONE")))
    ELSE IF check(P, "CALL") THEN parsePrimaryCallKeywordAt(A)
    ELSE ExpectedExpression(P)

\* parseBinaryExpr's loop: an operator and a primary, again and again; '='
\* must be doubled
parseBinaryRest(P) ==
    IF tokenAt(P).type \notin BinaryOperators THEN P
    ELSE LET A == advanceToken(P) IN
         IF check(P, "EQUAL") /\ ~check(A, "EQUAL")
         THEN ThrowParserError(A, "Single '=' is not a valid operator")
         ELSE andThen(parsePrimaryAt(IF check(P, "EQUAL") THEN advanceToken(A) ELSE A),
                      LAMBDA Q : parseBinaryRest(Built(Q, "Binary", "NONE")))

parseBinaryExprAt(P) == andThen(parsePrimaryAt(P), LAMBDA Q : parseBinaryRest(Q))

parseExprAt(P) == parseBinaryExprAt(P)

\* parseVarDecl after the initializer: the 'as' hint or the hint a literal
\* initializer gives, then the symbol
parseVarDeclHint(P, name) ==
    LET A == advanceToken(P)
        declare(Q, hint) ==
            StmtBuilt([Q EXCEPT !.symbolTable =
                            addSymbolHint(@, name.lexeme, hint, << >>)], "VarDecl")
    IN  IF check(P, "AS")
        THEN IF check(A, "INTEGER")
             THEN declare(IF check(advanceToken(A), "LONG")
                          THEN advanceToken(advanceToken(A)) ELSE advanceToken(A),
                          "INTEGER")
             ELSE IF check(A, "STRING") THEN declare(advanceToken(A), "STRING")
             ELSE ThrowParserError(A, "Expected type hint after 'as'")
        ELSE IF P.built.kind = "Literal"
        THEN declare(P, IF P.built.type = "NUMBER" THEN "INTEGER" ELSE "STRING")
        ELSE declare(P, "NONE")

\* parseVarDecl: 'let' is consumed
parseVarDeclAt(P0) ==
    LET P == advanceToken(P0)
        name == previous(P)
    IN  IF name.type # "IDENTIFIER"
        THEN ThrowParserError(P, "Expected identifier after 'let'")
        ELSE IF symbolExistsInCurrentScope(P.symbolTable, name.lexeme)
        THEN ThrowParserError(P, "Variable already declared in this scope")
        ELSE IF ~(check(P, "BE") \/ check(P, "EQUAL"))
        THEN ThrowParserError(P, "Expected 'be' or '=' after identifier in 'let' statement")
        ELSE andThen(parseExprAt(advanceToken(P)),
                     LAMBDA Q : parseVarDeclHint(Q, name))

\* parseSetStmt: 'set' is consumed
parseSetStmtAt(P0) ==
    LET P == advanceToken(P0)
        name == previous(P)
    IN  IF name.type # "IDENTIFIER"
        THEN ThrowParserError(P, "Expected identifier after 'set'")
        ELSE IF ~symbolExists(P.symbolTable, name.lexeme)
        THEN ThrowParserError(P, "Variable not declared")
        ELSE IF check(P, "LEFT_BRACKET")
        THEN andThen(parseExprAt(advanceToken(P)), LAMBDA I :
                expect(I, "RIGHT_BRACKET", "Expected ']' after index", LAMBDA B :
                    expect(B, "EQUAL", "Expected '=' after index expression", LAMBDA E :
                        andThen(parseExprAt(E),
                                LAMBDA V : Built(V, "IndexAssign", "NONE")))))
        ELSE expect(P, "EQUAL", "Expected '=' after identifier in 'set' statement",
                    LAMBDA E : andThen(parseExprAt(E), LAMBDA V : StmtBuilt(V, "Set")))

\* the body of a block in a scope of its own: enterScope, parseStmtList,
\* exitScope
parseScopedBody(P) ==
    andThen(parseStmtListAt(enterScopeOf(P)), LAMBDA Q : exitScopeOf(Q))

\* 'then', the indentation and the scoped body of a when branch
parseThenBody(P) ==
    expect(P, "THEN", "Expected 'then' after condition", LAMBDA T :
        expect(T, "INDENT", "Expected indentation after 'then'",
               LAMBDA I : parseScopedBody(I)))

\* parseWhenStmt's loop over DEDENT OTHERWISE, then DEDENT END
parseWhenBranches(P) ==
    IF check(P, "DEDENT") /\ checkNext(P, "OTHERWISE")
    THEN LET O == advanceToken(advanceToken(P)) IN
         IF check(O, "WHEN")
         THEN andThen(parseBinaryExprAt(advanceToken(O)), LAMBDA C :
                 andThen(parseThenBody(C), LAMBDA B : parseWhenBranches(B)))
         ELSE expect(O, "INDENT", "Expected indentation after 'otherwise'", LAMBDA I :
                 andThen(parseScopedBody(I), LAMBDA B : parseWhenBranches(B)))
    ELSE expect(P, "DEDENT", "Expected dedent before 'end' of 'when' statement", LAMBDA D :
            expect(D, "END", "Expected 'end' to close 'when' statement",
                   LAMBDA E : StmtBuilt(E, "When")))

\* parseWhenStmt: 'when' is consumed
parseWhenStmtAt(P) ==
    andThen(parseExprAt(P), LAMBDA C :
        andThen(parseThenBody(C), LAMBDA B : parseWhenBranches(B)))

\* parseSayStmt: 'say' is consumed
parseSayStmtAt(P) == andThen(parseExprAt(P), LAMBDA Q : StmtBuilt(Q, "Say"))

\* the end of parseMatchStmt, after the cases
parseMatchEnd(P) ==
    IF ~check(P, "DEDENT") /\ ~check(P, "END")
    THEN ThrowParserError(P, "Expected dedent before 'end' of 'match' statement")
    ELSE expect(IF check(P, "DEDENT") THEN advanceToken(P) ELSE P, "END",
                "Expected 'end' to close 'match' statement",
                LAMBDA E : andThen(exitScopeOf(E), LAMBDA X : StmtBuilt(X, "Match")))

\* the body of a case: an indented block, or one statement on the line
parseCaseBody(P) ==
    IF check(P, "INDENT")
    THEN andThen(parseStmtListAt(advanceToken(P)), LAMBDA B :
            IF check(B, "DEDENT") THEN advanceToken(B)
            ELSE IF check(B, "CASE") \/ check(B, "END") THEN B
            ELSE ThrowParserError(B, "Expected dedent after case block"))
    ELSE parseStmtAt(P)

\* parseMatchStmt's loop over the cases; any says whether a case was parsed
parseMatchCases(P, any) ==
    IF check(P, "CASE")
    THEN andThen(parseExprAt(advanceToken(P)), LAMBDA C :
            expect(C, "THEN", "Expected 'then' after case pattern", LAMBDA T :
                andThen(parseCaseBody(T), LAMBDA B : parseMatchCases(B, TRUE))))
    ELSE IF ~any
    THEN ThrowParserError(P, "Expected at least one 'case' clause in 'match' statement")
    ELSE parseMatchEnd(P)

\* parseMatchStmt: 'match' is consumed
parseMatchStmtAt(P) ==
    andThen(parseExprAt(enterScopeOf(P)), LAMBDA C :
        expect(C, "INDENT", "Expected indentation after 'match' expression",
               LAMBDA I : parseMatchCases(I, FALSE)))

\* the end of a block statement: DEDENT (which may be missing before END
\* where the code allows it), END, exitScope
parseBlockClose(P, dedentOptional, kind) ==
    IF ~check(P, "DEDENT") /\ ~(dedentOptional /\ check(P, "END"))
    THEN ThrowParserError(P, "Expected dedent after block")
    ELSE expect(IF check(P, "DEDENT") THEN advanceToken(P) ELSE P, "END",
                "Expected 'end' to close block",
                LAMBDA E : andThen(exitScopeOf(E), LAMBDA X : StmtBuilt(X, kind)))

\* INDENT, the statements of the body, and the end of the block
parseIndentedBody(P, message, dedentOptional, kind) ==
    expect(P, "INDENT", message, LAMBDA I :
        andThen(parseStmtListAt(I),
                LAMBDA B : parseBlockClose(B, dedentOptional, kind)))

\* parseWhileLoop: 'repeat while' is consumed
parseWhileLoopAt(P) ==
    andThen(parseExprAt(enterScopeOf(P)), LAMBDA C :
        parseIndentedBody(C, "Expected indentation after while condition",
                          FALSE, "While"))

\* the optional 'step' expression, then the body of a for or with loop
parseStepAndBody(P, kind) ==
    andThen(IF check(P, "STEP") THEN parseExprAt(advanceToken(P)) ELSE P, LAMBDA S :
        parseIndentedBody(S, "Expected indentation after loop", TRUE, kind))

\* the iterator of a for or with loop, registered as INTEGER in a new scope
parseIterator(P0, message, K(_)) ==
    LET P == advanceToken(enterScopeOf(P0))
        iterator == previous(P)
    IN  IF iterator.type # "IDENTIFIER" THEN ThrowParserError(P, message)
        ELSE K([P EXCEPT !.symbolTable =
                    addSymbolHint(@, iterator.lexeme, "INTEGER", << >>)])

\* parseForLoop: 'repeat for' is consumed
parseForLoopAt(P) ==
    parseIterator(P, "Expected identifier after 'for'", LAMBDA I :
        expect(I, "FROM", "Expected 'from' in for loop", LAMBDA F :
            andThen(parseExprAt(F), LAMBDA S :
                expect(S, "TO", "Expected 'to' in for loop", LAMBDA T :
                    andThen(parseExprAt(T), LAMBDA E : parseStepAndBody(E, "For"))))))

\* parseWithLoop: 'repeat with' is consumed
parseWithLoopAt(P) ==
    parseIterator(P, "Expected identifier after 'with'", LAMBDA I :
        expect(I, "STARTING", "Expected 'starting' in with loop", LAMBDA G :
            expect(G, "AT", "Expected 'at' in with loop", LAMBDA A :
                andThen(parseExprAt(A), LAMBDA S :
                    expect(S, "UNTIL", "Expected 'until' in with loop", LAMBDA U :
                        andThen(parseExprAt(U),
                                LAMBDA E : parseStepAndBody(E, "With")))))))

\* parseTryCatchStmt: 'try' is consumed; one scope for both blocks, the
\* exception variable registered as STRING
parseTryCatchStmtAt(P) ==
    expect(enterScopeOf(P), "INDENT", "Expected indentation after 'try'", LAMBDA I :
     andThen(parseStmtListAt(I), LAMBDA B :
      expect(B, "DEDENT", "Expected dedent after try block", LAMBDA D :
       expect(D, "CATCH", "Expected 'catch' after try block", LAMBDA C :
        LET V == advanceToken(C) IN
        IF previous(V).type # "IDENTIFIER"
        THEN ThrowParserError(V, "Expected identifier for exception variable after 'catch'")
        ELSE parseIndentedBody(
                 [V EXCEPT !.symbolTable =
                      addSymbolHint(@, previous(V).lexeme, "STRING", << >>)],
                 "Expected indentation after 'catch'", FALSE, "TryCatch")))))

\* do { param = advance(); ... } while (match(COMMA)); the names are
\* collected in parameters
RECURSIVE parseParameters(_)
parseParameters(P0) ==
    LET P == advanceToken(P0) IN
    IF previous(P).type # "IDENTIFIER" THEN ThrowParserError(P, "Expected parameter name")
    ELSE LET Q == [P EXCEPT !.parameters = Append(@, previous(P).lexeme)] IN
         IF check(Q, "COMMA") THEN parseParameters(advanceToken(Q)) ELSE Q

\* parseFunctionDef: 'define function' is consumed
parseFunctionDefAt(P0) ==
    LET P == advanceToken(P0)
        name == previous(P)
    IN  IF name.type # "IDENTIFIER"
        THEN ThrowParserError(P, "Expected function name after 'define function'")
        ELSE IF symbolExists(P.symbolTable, name.lexeme)
        THEN ThrowParserError(P, "Function already declared in this scope")
        ELSE expect(P, "LEFT_PAREN", "Expected '(' after function name", LAMBDA L :
         andThen(IF check(L, "RIGHT_PAREN") THEN [L EXCEPT !.parameters = << >>]
                 ELSE parseParameters([L EXCEPT !.parameters = << >>]), LAMBDA Q :
          expect(Q, "RIGHT_PAREN", "Expected ')' after parameters", LAMBDA R :
           parseIndentedBody(
               [R EXCEPT !.symbolTable =
                    addParameters(
                        enterScope(addSymbol(@, name.lexeme, "FUNCTION", R.parameters)),
                        R.parameters)],
               "Expected indentation after function definition", FALSE,
               "FunctionDef"))))

\* parseCallStmt: 'call' is consumed; the name must be a function
parseCallStmtAt(P0) ==
    LET P == advanceToken(P0)
        name == previous(P)
    IN  IF name.type # "IDENTIFIER"
        THEN ThrowParserError(P, "Expected function name after 'call'")
        ELSE IF ~symbolExists(P.symbolTable, name.lexeme)
        THEN ThrowParserError(P, "Function not declared")
        ELSE IF getSymbol(P.symbolTable, name.lexeme).type # "FUNCTION"
        THEN ThrowParserError(P, "is not a function")
        ELSE expect(P, "LEFT_PAREN", "Expected '(' after function name in 'call'",
                    LAMBDA L :
                andThen(parseCallArguments(L, "Expected ')' after arguments"),
                        LAMBDA R : StmtBuilt(R, "Call")))

\* parseReturnStmt: 'return' is consumed; a value unless the line ends
parseReturnStmtAt(P) ==
    IF check(P, "NEWLINE") \/ check(P, "DEDENT") \/ check(P, "END")
    THEN StmtBuilt(P, "Return")
    ELSE andThen(parseExprAt(P), LAMBDA Q : StmtBuilt(Q, "Return"))

\* parseStmt from 'define': FUNCTION must follow, else the tests for
\* 'call' and 'return' go on after the consumed 'define'
parseAfterDefine(P) ==
    IF check(P, "FUNCTION") THEN parseFunctionDefAt(advanceToken(P))
    ELSE IF check(P, "CALL") THEN parseCallStmtAt(advanceToken(P))
    ELSE IF check(P, "RETURN") THEN parseReturnStmtAt(advanceToken(P))
    ELSE ExpectedStatement(P)

\* parseStmt from 'repeat'
parseAfterRepeat(P) ==
    IF check(P, "WHILE") THEN parseWhileLoopAt(advanceToken(P))
    ELSE IF check(P, "FOR") THEN parseForLoopAt(advanceToken(P))
    ELSE IF check(P, "WITH") THEN parseWithLoopAt(advanceToken(P))
    ELSE ThrowParserError(P, "Expected 'while', 'for', or 'with' after 'repeat'")

\* the try block of parseStmt: a leading INDENT is consumed, then the
\* statement's keyword chooses the production
parseStmtBody(P0) ==
    LET P == IF check(P0, "INDENT") THEN advanceToken(P0) ELSE P0
        A == advanceToken(P)
    IN  CASE check(P, "LET")    -> parseVarDeclAt(A)
          [] check(P, "SET")    -> parseSetStmtAt(A)
          [] check(P, "WHEN")   -> parseWhenStmtAt(A)
          [] check(P, "SAY")    -> parseSayStmtAt(A)
          [] check(P, "MATCH")  -> parseMatchStmtAt(A)
          [] check(P, "THROW")  -> andThen(parseExprAt(A), LAMBDA Q : Built(Q, "Throw", "NONE"))
          [] check(P, "REPEAT") -> parseAfterRepeat(A)
          [] check(P, "TRY")    -> parseTryCatchStmtAt(A)
          [] check(P, "CASE")   ->
                ThrowParserError(A, "Unexpected 'case' outside of match statement")
          [] check(P, "DEFINE") -> parseAfterDefine(A)
          [] check(P, "CALL")   -> parseCallStmtAt(A)
          [] check(P, "RETURN") -> parseReturnStmtAt(A)
          [] OTHER              -> ExpectedStatement(P)

\* catch (const ParserError& e) { synchronize(); throw; }
catchParserError(R) == IF R.thrown = "ParserError" THEN synchronize(R) ELSE R

\* parseStmt
parseStmtAt(P) == catchParserError(parseStmtBody(P))

\* parseStmtList: statements up to the token that ends a block
parseStmtListAt(P) ==
    IF tokenAt(P).type \in StmtListStops THEN skipNewlines(P)
    ELSE IF check(P, "NEWLINE") THEN parseStmtListAt(advanceToken(P))
    ELSE andThen(parseStmtAt(P), LAMBDA Q : parseStmtListAt(Q))

\* parseProgram: statements up to END_OF_FILE; NEWLINE and DEDENT tokens
\* between them are passed over.  statements collects the classes of the
\* nodes.
RECURSIVE parseProgramAt(_)
parseProgramAt(P) ==
    IF atEndOfTokens(P) \/ check(P, "END_OF_FILE") THEN P
    ELSE IF check(P, "NEWLINE") \/ check(P, "DEDENT")
    THEN parseProgramAt(advanceToken(P))
    ELSE andThen(parseStmtAt(P), LAMBDA Q :
            parseProgramAt([skipNewlines(Q) EXCEPT
                               !.statements = Append(@, Q.built.kind)]))

\* parse: parseProgram, a ParserError rethrown
parseAt(P) == parseProgramAt(P)

-----------------------------------------------------------------------------
(* The parser run over a token vector (SpecTokens): main.cpp 219-229       *)
(* constructs Parser(tokens) and calls parse().  The vectors are the       *)
(* tokens of small programs, as they are, with one token replaced by an    *)
(* UNKNOWN token or with an UNKNOWN token put in, and every short vector   *)
(* over a few token types; each ends with END_OF_FILE.                     *)

MaxTokens == 3

IdentifierWords == {"x", "f", "a", "i", "e", "d"}

\* the token a word stands for
Word(w) ==
    IF w \in IdentifierWords THEN Token("IDENTIFIER", <<w>>, 1)
    ELSE IF w = "NUMBER" THEN Token("NUMBER", <<"1">>, 1)
    ELSE IF w = "STRING" THEN Token("STRING", <<"s">>, 1)
    ELSE Token(w, << >>, 1)

Spell(ws) == [k \in 1 .. Len(ws) |-> Word(ws[k])]

BaseSequences ==
    {Spell(ws) : ws \in {
        <<"SAY", "NUMBER">>,
        <<"SAY", "LEFT_PAREN", "MINUS", "NUMBER", "STAR", "NUMBER", "RIGHT_PAREN">>,
        <<"LET", "x", "EQUAL", "NUMBER", "SAY", "x", "PLUS", "NUMBER">>,
        <<"LET", "x", "BE", "STRING", "AS", "STRING", "SET", "x", "EQUAL", "STRING">>,
        <<"LET", "x", "EQUAL", "NUMBER", "SAY", "x", "EQUAL", "EQUAL", "NUMBER">>,
        <<"WHEN", "NUMBER", "THEN", "INDENT", "SAY", "NUMBER", "DEDENT",
          "OTHERWISE", "INDENT", "SAY", "STRING", "DEDENT", "END">>,
        <<"WHEN", "NUMBER", "THEN", "INDENT", "SAY", "NUMBER", "DEDENT",
          "OTHERWISE", "WHEN", "NUMBER", "THEN", "INDENT", "SAY", "NUMBER",
          "DEDENT", "END">>,
        <<"REPEAT", "WHILE", "NUMBER", "LESS", "NUMBER", "INDENT",
          "SAY", "NUMBER", "DEDENT", "END">>,
        <<"REPEAT", "FOR", "i", "FROM", "NUMBER", "TO", "NUMBER", "INDENT",
          "SAY", "i", "DEDENT", "END">>,
        <<"REPEAT", "WITH", "i", "STARTING", "AT", "NUMBER", "UNTIL", "NUMBER",
          "STEP", "NUMBER", "INDENT", "SAY", "i", "DEDENT", "END">>,
        <<"DEFINE", "FUNCTION", "f", "LEFT_PAREN", "a", "COMMA", "x", "RIGHT_PAREN",
          "INDENT", "RETURN", "a", "DEDENT", "END",
          "CALL", "f", "LEFT_PAREN", "NUMBER", "COMMA", "NUMBER", "RIGHT_PAREN",
          "SAY", "f", "LEFT_PAREN", "NUMBER", "COMMA", "NUMBER", "RIGHT_PAREN">>,
        <<"LET", "x", "EQUAL", "LEFT_BRACKET", "NUMBER", "COMMA", "NUMBER",
          "RIGHT_BRACKET", "SET", "x", "LEFT_BRACKET", "NUMBER", "RIGHT_BRACKET",
          "EQUAL", "NUMBER", "SAY", "x", "LEFT_BRACKET", "NUMBER", "RIGHT_BRACKET">>,
        <<"LET", "d", "EQUAL", "LEFT_BRACE", "STRING", "COLON", "NUMBER",
          "RIGHT_BRACE", "SAY", "d", "LEFT_BRACKET", "STRING", "RIGHT_BRACKET">>,
        <<"TRY", "INDENT", "THROW", "STRING", "DEDENT", "CATCH", "e", "INDENT",
          "SAY", "e", "DEDENT", "END">>,
        <<"MATCH", "NUMBER", "INDENT", "CASE", "NUMBER", "THEN", "SAY", "NUMBER",
          "CASE", "STRING", "THEN", "INDENT", "SAY", "STRING", "DEDENT",
          "DEDENT", "END">>}}

Unknown == Token("UNKNOWN", <<"@">>, 1)

EndOfFile == Token("END_OF_FILE", << >>, 1)

\* the vector with its k-th token replaced by an UNKNOWN token
UnknownReplaced ==
    UNION {{[b EXCEPT ![k] = Unknown] : k \in 1 .. Len(b)} : b \in BaseSequences}

\* the vector with an UNKNOWN token put in before its k-th token, or at
\* its end
UnknownInserted ==
    UNION {{SubSeq(b, 1, k - 1) \o <<Unknown>> \o SubSeq(b, k, Len(b)) :
                k \in 1 .. Len(b) + 1} : b \in BaseSequences}

ShortAlphabet ==
    {Word(w) : w \in {"SAY", "NUMBER", "PLUS", "LET", "x", "EQUAL",
                      "INDENT", "DEDENT", "NEWLINE"}} \cup {Unknown}

ShortSequences == UNION {[1 .. n -> ShortAlphabet] : n \in 0 .. MaxTokens}

TokenSequences ==
    {s \o <<EndOfFile>> :
        s \in BaseSequences \cup UnknownReplaced \cup UnknownInserted
              \cup ShortSequences}

InitTokens ==
    /\ source = << >>
    /\ lexer = [current |-> 0]
    /\ tokens \in TokenSequences
    /\ IdleParser
    /\ IdleRun

\* main.cpp 219-229: Parser parser(tokens); ast = parser.parse(); a
\* ParserError is caught and main returns 1, any other exception leaves
\* main uncaught; no later stage is run by main.
ParseReturns(R) ==
    /\ parseStatus' = IF R.thrown = "" THEN "done" ELSE "failed"
    /\ symbolTable' = R.symbolTable
    /\ program' = IF R.thrown = "" THEN R.statements ELSE << >>
    /\ stage' = CASE R.thrown = "" -> [at |-> "parsed", error |-> ""]
                  [] R.thrown = "ParserError" ->
                         [at |-> "parse_error", error |-> R.error]
                  [] OTHER -> [at |-> "aborted", error |-> R.error]

ParseTokens ==
    /\ parseStatus = "idle"
    /\ ParseReturns(parseAt(NewParser))
    /\ UNCHANGED <<lexVars, blocks, lastStmt, input, interp>>

NextTokens == ParseTokens

SpecTokens == InitTokens /\ [][NextTokens]_vars

-----------------------------------------------------------------------------
(* Claims about the parser over token vectors, checked under SpecTokens *)

HasUnknown == \E k \in 1 .. Len(tokens) : tokens[k].type = "UNKNOWN"

\* C20: a token vector with an UNKNOWN token before END_OF_FILE is rejected:
\* parse() throws a ParserError and returns no Program, and nothing of the
\* program is executed.
C20_UnknownTokenRejected ==
    HasUnknown /\ parseStatus # "idle"
        => /\ parseStatus = "failed"
           /\ stage.at = "parse_error"
           /\ program = << >>
           /\ interp = [pc |-> 0]

\* a program that parses but for the UNKNOWN token put into it has been
\* rejected, at the UNKNOWN token
C20_ProgramWithUnknownRejected ==
    /\ tokens \in {s \o <<EndOfFile>> : s \in UnknownInserted}
    /\ Len(tokens) > MaxTokens + 1
    /\ parseStatus = "failed"
    /\ stage.error \in {"Expected expression",
                        "Expected statement (let, set, when, say, match, or repeat)"}

-----------------------------------------------------------------------------
(* Claims about the stages run over a program, checked under Spec *)

RECURSIVE ExprStructure(_)
RECURSIVE StmtStructure(_)

\* a node without the type annotations of the semantic pass: its kind, its
\* tokens and its children, in order
ExprStructure(e) ==
    CASE e.kind = "None" -> e
      [] e.kind = "Binary" ->
            [e EXCEPT !.left = ExprStructure(@), !.right = ExprStructure(@),
                      !.inferredType = "NONE"]
      [] e.kind = "Paren" ->
            [e EXCEPT !.expr = ExprStructure(@), !.inferredType = "NONE"]
      [] e.kind = "ListLiteral" ->
            [e EXCEPT !.elements =
                          [k \in 1 .. Len(e.elements) |->
                              ExprStructure(e.elements[k])],
                      !.inferredType = "NONE"]
      [] e.kind = "DictLiteral" ->
            [e EXCEPT !.entries =
                          [k \in 1 .. Len(e.entries) |->
                              <<ExprStructure(e.entries[k][1]),
                                ExprStructure(e.entries[k][2])>>],
                      !.inferredType = "NONE"]
      [] e.kind = "Index" ->
            [e EXCEPT !.base = ExprStructure(@), !.index = ExprStructure(@),
                      !.inferredType = "NONE"]
      [] e.kind = "Call" ->
            [e EXCEPT !.arguments =
                          [k \in 1 .. Len(e.arguments) |->
                              ExprStructure(e.arguments[k])],
                      !.inferredType = "NONE"]
      [] OTHER -> [e EXCEPT !.inferredType = "NONE"]

StmtsStructure(body) == [k \in 1 .. Len(body) |-> StmtStructure(body[k])]

StmtStructure(s) ==
    CASE s.kind = "VarDecl" ->
            [s EXCEPT !.init = ExprStructure(@), !.declaredType = "NONE"]
      [] s.kind = "Set" -> [s EXCEPT !.value = ExprStructure(@)]
      [] s.kind = "Say" -> [s EXCEPT !.expr = ExprStructure(@)]
      [] s.kind = "When" ->
            [s EXCEPT !.branches =
                [k \in 1 .. Len(s.branches) |->
                    [condition |-> ExprStructure(s.branches[k].condition),
                     body |-> StmtsStructure(s.branches[k].body)]]]
      [] s.kind = "While" ->
            [s EXCEPT !.condition = ExprStructure(@), !.body = StmtsStructure(@)]
      [] s.kind = "For" ->
            [s EXCEPT !.start = ExprStructure(@), !.end = ExprStructure(@),
                      !.step = ExprStructure(@), !.body = StmtsStructure(@)]
      [] s.kind = "FunctionDef" -> [s EXCEPT !.body = StmtsStructure(@)]
      [] s.kind = "CallStmt" ->
            [s EXCEPT !.arguments =
                          [k \in 1 .. Len(s.arguments) |->
                              ExprStructure(s.arguments[k])]]
      [] s.kind = "Return" ->
            [s EXCEPT !.value = ExprStructure(@), !.returnType = "NONE"]
      [] s.kind = "Throw" -> [s EXCEPT !.expr = ExprStructure(@)]
      [] s.kind = "IndexAssign" ->
            [s EXCEPT !.target = ExprStructure(@), !.value = ExprStructure(@)]
      [] s.kind = "TryCatch" ->
            [s EXCEPT !.tryBody = StmtsStructure(@),
                      !.catchBody = StmtsStructure(@)]
      [] s.kind = "Match" ->
            [s EXCEPT !.condition = ExprStructure(@),
                      !.cases =
                          [k \in 1 .. Len(s.cases) |->
                              Case(ExprStructure(s.cases[k].pattern),
                                   StmtsStructure(s.cases[k].body))]]

\* C15: the semantic pass does not change the structure of the tree:
\* whether analyze() returns or throws, the program it leaves has the
\* statements and expressions, kinds, order, tokens and children it had,
\* and differs at most in the inferredType, declaredType and returnType
\* annotations; besides the tree only the scope table is written.
C15_SemanticPassKeepsTreeStructure ==
    [][stage.at = "parsed" =>
          /\ StmtsStructure(program') = StmtsStructure(program)
          /\ UNCHANGED <<lexVars, input, interp>>]_vars

\* C15 happens: analyze() has returned and has written annotations into a
\* declaration and into the expression below it, and into the scope table
C15_AnnotationsWritten ==
    /\ stage.at = "analyzed"
    /\ \E k \in 1 .. Len(program) :
         /\ program[k].kind = "VarDecl"
         /\ program[k].declaredType = "INTEGER"
         /\ program[k].init.kind = "Binary"
         /\ program[k].init.inferredType = "INTEGER"
         /\ program[k] # input[k]
         /\ getSymbol(symbolTable, program[k].name).type = "INTEGER"

\* C14: every scope the interpreter enters is new and holds no binding left
\* by a scope that was exited: a program whose only declaration of x is in
\* the body of a loop that has ended never prints x from a later when
\* branch, a later loop body or the body of a function called afterwards.
C14_EnteredScopeHoldsNoOldBinding ==
    input \in ExitedScopePrograms => interp.out = << >>

\* C1: when a call finishes, whether its body returned at the top level,
\* returned from inside when / while / for blocks or fell through, the
\* environment's current scope is the one that was current just before the
\* call.
C1_CallLeavesScopeDepthUnchanged ==
    \A k \in 1 .. Len(interp.calls) :
        interp.calls[k].after = interp.calls[k].before

\* the type the programs with a comparison give an operand: x is declared
\* with 1 and y with "a"
OperandType(e) ==
    IF e.kind = "Literal" THEN (IF e.type = "NUMBER" THEN "INTEGER" ELSE "STRING")
    ELSE IF e.name = "x" THEN "INTEGER" ELSE "STRING"

\* the programs that compare an integer operand with a string operand
MixedComparisonPrograms ==
    UNION {ComparisonProgramsOf(l, r) :
               <<l, r>> \in {o \in Operands \X Operands :
                                 OperandType(o[1]) # OperandType(o[2])}}

\* the stages a run is at before the semantic pass has ended
BeforeAnalysisEnds == {"start", "parsed"}

\* C3: a comparison of an integer operand with a string operand, wherever
\* it occurs in the program (the expression of a say statement included),
\* is rejected by the semantic pass with a type-mismatch error and is never
\* evaluated by the interpreter.
C3_MixedComparisonRejectedBySemanticPass ==
    /\ ~interp.mixed
    /\ input \in MixedComparisonPrograms /\ stage.at \notin BeforeAnalysisEnds
           => /\ stage.at = "semantic_error"
              /\ stage.error = "Operands must have the same type for comparison"

\* the programs that call f with a number of arguments that is not the
\* number of its parameters
ArityMismatchPrograms ==
    UNION {ArityProgramsOf(params, args) :
               <<params, args>> \in {pa \in Parameters \X Arguments :
                                         Len(pa[1]) # Len(pa[2])}}

\* C4: a call with a number of arguments that differs from the number of
\* parameters of the function, at any call site, is rejected by the parser
\* or the semantic pass with an arity error before the interpreter executes
\* any statement.
C4_ArityMismatchRejectedBeforeExecution ==
    input \in ArityMismatchPrograms
        => /\ interp.steps = 0
           /\ stage.at \notin BeforeAnalysisEnds
                  => /\ stage.at \in {"parse_error", "semantic_error"}
                     /\ stage.error = "Incorrect number of arguments"

\* C5: once a division by 0 has been evaluated, at any depth of blocks and
\* calls, the run has ended with the error "Division by zero": no statement
\* was executed after it, and the output is the output produced before it,
\* in the same order.
C5_DivisionByZeroAborts ==
    interp.divisions # << >>
        => /\ stage.at = "runtime_error"
           /\ stage.error = "Division by zero"
           /\ Len(interp.divisions) = 1
           /\ interp.steps = interp.divisions[1].steps
           /\ interp.out = interp.divisions[1].out

\* C5 happens: a division by 0 inside a block inside a call inside a call,
\* after output was produced and with statements of the program left
C5_DivisionByZeroInNestedCall ==
    /\ interp.divisions # << >>
    /\ interp.env.currentScope >= 3
    /\ interp.out # << >>
    /\ interp.pc < Len(input) - 1
    /\ stage.at = "runtime_error"

\* the number of values s, s+k, s+2k, ... up to e (k > 0) or down to e (k < 0)
IterationCount(s, e, k) ==
    IF k > 0 THEN (IF s > e THEN 0 ELSE ((e - s) \div k) + 1)
    ELSE (IF s < e THEN 0 ELSE ((s - e) \div (0 - k)) + 1)

\* C6: a for loop with start s, end e and step k runs its body for
\* i = s, s+k, s+2k, ... in that order, the iterator bound to i when the
\* body begins, while i <= e (k > 0) or i >= e (k < 0), so not at all when
\* s is past e; a loop that has ended ran its body for every such i.  The
\* loops with body 'say i' print those values in that order, and
\* 'repeat for i from 1 to 3' prints 1, 2, 3.
C6_ForLoopIterations ==
    /\ \A id \in 1 .. Len(interp.loops) :
         LET loop == interp.loops[id] IN
         /\ \A j \in 1 .. Len(loop.iterations) :
              /\ loop.iterations[j].i = loop.start + (j - 1) * loop.step
              /\ loop.iterations[j].bound = IntValue(loop.iterations[j].i)
              /\ IF loop.step > 0 THEN loop.iterations[j].i <= loop.end
                 ELSE loop.iterations[j].i >= loop.end
         /\ loop.finished
                => Len(loop.iterations) =
                       IterationCount(loop.start, loop.end, loop.step)
    /\ input \in SayLoops /\ stage.at = "done"
           => interp.out = [j \in 1 .. Len(interp.loops[1].iterations) |->
                               to_string(interp.loops[1].iterations[j].i)]
    /\ input = <<ForStmt("i", Num(1), Num(3), NoExpr, <<Say(Var("i"))>>)>>
       /\ stage.at = "done"
           => interp.out = << <<"1">>, <<"2">>, <<"3">> >>

\* C6 happens: a loop counting down has ended after several iterations
C6_CountingDownLoopEnded ==
    /\ stage.at = "done"
    /\ \E id \in 1 .. Len(interp.loops) :
         /\ interp.loops[id].finished
         /\ interp.loops[id].step < 0
         /\ Len(interp.loops[id].iterations) >= 2

-----------------------------------------------------------------------------
(* Claims about the parser and its scope table, checked under SpecParser  *)

\* the forms of reference for which the parser consults the scope table
CheckedForms == {"variable", "set", "call-paren", "call-stmt"}

\* C7: a name declared only inside a nested block that has ended, and not
\* resolvable before that block, is not resolvable at the enclosing level
\* after the block's end, and a reference to it there is rejected: the
\* inner scope's declaration does not leak out
C7_InnerDeclarationDoesNotLeakOut ==
    /\ parseStatus = "parsing" =>
         \A n \in TopFrame.hidden : ~symbolExists(symbolTable, n)
    /\ \A r \in lastStmt.refs :
         r.hidden /\ r.form \in CheckedForms => ~r.accepted /\ ~lastStmt.ok

\* C8: each block body is parsed in a scope of its own: a reference the
\* parser resolves inside a block body is to a name declared in a block
\* that is still open (never to one declared in an earlier block that has
\* ended), and a let is refused as a redeclaration only when the current
\* block body itself has declared the name
C8_EachBlockBodyHasItsOwnScope ==
    /\ \A r \in lastStmt.refs :
         r.accepted /\ r.form \in CheckedForms /\ ~r.hidden => r.visible
    /\ lastStmt.decl.kind = "let" /\ lastStmt.decl.rejected
         => lastStmt.decl.local

\* C9: every name the parser accepts as a reference, in any of the forms,
\* resolves in the scope table at the moment it is parsed
C9_AcceptedReferenceResolves ==
    \A r \in lastStmt.refs : r.accepted => r.resolved

\* C10: let NAME and define function NAME are refused as redeclarations
\* exactly when NAME is in the current scope
C10_RedeclarationOnlyInCurrentScope ==
    lastStmt.decl.kind \in {"let", "function"}
        => (lastStmt.decl.rejected <=> lastStmt.decl.inCurrent)

-----------------------------------------------------------------------------
(* Claims about the lexer, checked under SpecLexer *)

\* the lines of a text, without their newlines
RECURSIVE LinesOf(_)
LinesOf(text) ==
    LET ends == {k \in 1 .. Len(text) : text[k] = "\n"} IN
    IF ends = {} THEN <<text>>
    ELSE <<SubSeq(text, 1, Min(ends) - 1)>>
         \o LinesOf(SubSeq(text, Min(ends) + 1, Len(text)))

\* the width of the leading whitespace of a line
LeadingWidth(line) ==
    Min({k \in 0 .. Len(line) :
            IF k = Len(line) THEN TRUE ELSE line[k + 1] \notin {" ", "\t"}})

\* a line that is neither blank nor a comment
IsCodeLine(line) ==
    /\ LeadingWidth(line) < Len(line)
    /\ line[LeadingWidth(line) + 1] # "#"

\* the indentation widths of the code lines of a text, in order
CodeWidths(text) ==
    LET ls == LinesOf(text) IN
    SelectSeq([k \in 1 .. Len(ls) |-> [w |-> LeadingWidth(ls[k]), code |-> IsCodeLine(ls[k])]],
              LAMBDA l : l.code)

\* the stack of open widths after the code lines ws, starting from stack;
\* << >> when a line falls back to a width that is not open
RECURSIVE OpenWidths(_, _)
OpenWidths(stack, ws) ==
    IF ws = << >> \/ stack = << >> THEN stack
    ELSE LET w == Head(ws).w
             top == stack[Len(stack)] IN
         IF w > top THEN OpenWidths(Append(stack, w), Tail(ws))
         ELSE IF \E k \in 1 .. Len(stack) : stack[k] = w
         THEN OpenWidths(SubSeq(stack, 1, Max({k \in 1 .. Len(stack) : stack[k] = w})),
                         Tail(ws))
         ELSE << >>

\* balanced indentation: the first code line starts at column 0 and every
\* later one is deeper than the line before it or falls back to an open width
Balanced(text) ==
    LET ws == CodeWidths(text) IN
    /\ ws # << >>
    /\ ws[1].w = 0
    /\ OpenWidths(<<0>>, ws) # << >>

TokenCount(type) == Cardinality({k \in 1 .. Len(tokens) : tokens[k].type = type})

LexFinished == tokens # << >> /\ LastToken.type = "END_OF_FILE"

\* C17: the token sequence is finite for every source text: getNextToken
\* called again and again returns END_OF_FILE after finitely many calls,
\* and once it has returned END_OF_FILE the next call returns END_OF_FILE
\* again.
C17_TokenSequenceEnds ==
    /\ <>LexFinished
    /\ [](LexFinished =>
            \A v \in 0 .. MaxIndent :
                getNextToken(lexer, v).token.type = "END_OF_FILE")

\* the call has returned the first DEDENT of a line less indented than the
\* top of the stack (lexer.cpp 218-229: the only DEDENT returned with the
\* line number advanced)
ClosedByLine ==
    /\ tokens' # tokens
    /\ tokens'[Len(tokens')].type = "DEDENT"
    /\ lexer'.line > lexer.line

\* the indent width of the line the lexer now stands at the start of
WidthOfLine(L) == SkipWhile(L.current, {" ", "\t"}) - L.current

OnStack(L, width) == \E k \in 1 .. Len(L.indent_stack) : L.indent_stack[k] = width

\* C18: a line less indented than the top of the indent stack pops one
\* stack level per DEDENT token emitted for it, so that whenever no DEDENT
\* is pending the stack holds level 0 and one level per INDENT not yet
\* matched by a DEDENT; and when the line's width is not a level on the
\* stack the lexer reports an error (the UNKNOWN token is its only error
\* report) instead of a DEDENT.
C18_DedentPopsOnePerTokenOrErrors ==
    /\ [](lexer.pendingDedents = 0 /\ ~lexer.undefined =>
            Len(lexer.indent_stack) =
                1 + TokenCount("INDENT") - TokenCount("DEDENT"))
    /\ [][ClosedByLine => OnStack(lexer, WidthOfLine(lexer'))]_vars

\* the indentation levels open above level 0: the INDENT tokens returned
\* and not yet matched by a DEDENT token
OpenLevels == TokenCount("INDENT") - TokenCount("DEDENT")

\* C19: END_OF_FILE is returned only after one DEDENT for every indentation
\* level that was open when the end of the input was reached: when
\* END_OF_FILE has been returned no level is open any more, whatever the
\* source.
C19_EndOfFileAfterAllLevelsClosed ==
    LexFinished /\ ~lexer.undefined => OpenLevels = 0

\* C2: when END_OF_FILE is returned for a source with balanced indentation,
\* as many INDENT as DEDENT tokens have been emitted and the indent stack
\* is [0], also when a line closes several blocks at once
C2_BalancedIndentation ==
    LexFinished /\ Balanced(source)
        => /\ TokenCount("INDENT") = TokenCount("DEDENT")
           /\ lexer.indent_stack = <<0>>

-----------------------------------------------------------------------------
(* The parser and then the semantic pass, statement by statement, over a   *)
(* program (SpecAnalysis).  lastStmt is what the statement analyzed last   *)
(* did; program holds the statements as the analysis has left them.        *)

MaxElements == 2

\* list and dictionary literals of up to MaxElements literals
Literals == {Num(1), Num(2), StringLit(<<"a">>), StringLit(<<"b">>)}
ListLiterals ==
    {ListLiteralExpr(es) :
        es \in UNION {[1 .. n -> Literals] : n \in 0 .. MaxElements}}
DictLiterals ==
    {DictLiteralExpr(ps) :
        ps \in UNION {[1 .. n -> {Num(1), StringLit(<<"a">>)}
                                   \X {Num(1), StringLit(<<"a">>)}] :
                         n \in 0 .. MaxElements}}

\* let xs = <literal>
LiteralProgram(lit) == <<VarDeclStmt("xs", lit, "NONE")>>
LiteralPrograms == {LiteralProgram(lit) : lit \in ListLiterals \cup DictLiterals}

\* let xs = <a list, a dictionary, a number or a string>, set xs[idx] = v
Initializers ==
    {ListLiteralExpr(<<Num(1)>>),
     DictLiteralExpr(<< <<StringLit(<<"a">>), Num(1)>> >>),
     Num(1), StringLit(<<"a">>)}
IndexProgram(init, idx, v) ==
    <<VarDeclStmt("xs", init, "NONE"),
      IndexAssignStmt(IndexExpr(Var("xs"), idx), v)>>
IndexPrograms ==
    {IndexProgram(init, idx, v) :
        init \in Initializers, idx \in {Num(0), StringLit(<<"a">>)},
        v \in {Num(2), StringLit(<<"b">>)}}

\* define function f() with no return (its return type stays NONE), then
\* let x = v and up to MaxSets statements set x = v, where v is a number,
\* a string or the call f()
MaxSets == 2
SetValues == {Num(1), StringLit(<<"a">>), Call("f", << >>)}
SetProgram(first, vs) ==
    <<Function("f", <<Say(Num(1))>>), VarDeclStmt("x", first, "NONE")>>
        \o [k \in 1 .. Len(vs) |-> SetStmt("x", vs[k])]
SetPrograms ==
    {SetProgram(first, vs) :
        first \in SetValues,
        vs \in UNION {[1 .. n -> SetValues] : n \in 0 .. MaxSets}}

\* define function f(n) with a body that calls f; then say f(2).  The
\* call is a statement, the value returned, or an operand of arithmetic or
\* of a comparison; the other return of the body yields an integer
RecursiveBodies ==
    {<<BaseCase, CallStmt("f", Recurse.arguments), Return1>>,
     <<BaseCase, ReturnStmt(Recurse)>>,
     <<BaseCase, ReturnStmt(Times(Var("n"), Recurse))>>,
     <<BaseCase, ReturnStmt(Times(Recurse, Var("n")))>>,
     <<Return1, ReturnStmt(Times(Var("n"), Recurse))>>,
     <<BaseCase, When1(Less(Recurse, Num(1)), <<Return1>>), Return1>>}
RecursiveProgram(body) ==
    <<FunctionDefStmt("f", <<"n">>, body), Say(Call("f", <<Num(2)>>))>>
RecursivePrograms == {RecursiveProgram(body) : body \in RecursiveBodies}

\* a block statement of each kind around a body: a when branch, a while
\* body, a match case, a try body, a for body, a function body
Blocks(body) ==
    {When1(Num(1), body),
     WhileStmt(Num(0), body),
     MatchStmt(Num(1), <<Case(Num(1), body)>>),
     TryCatchStmt(body, "e", <<Say(Var("e"))>>),
     ForStmt("i", Num(1), Num(1), NoExpr, body),
     FunctionDefStmt("g", << >>, body)}

\* the bodies: let y = 1, alone, followed by set y = 2, or inside a when
\* branch of the body; and a body that declares nothing
LetY == VarDeclStmt("y", Num(1), "NONE")
BlockBodies ==
    {<<LetY>>, <<LetY, SetStmt("y", Num(2))>>, <<When1(Num(1), <<LetY>>)>>,
     <<Say(Num(1))>>}

\* a block around one of the bodies, alone or after a global let y = "a"
BlockPrograms ==
    {prefix \o <<block>> :
        prefix \in {<< >>, <<VarDeclStmt("y", StringLit(<<"a">>), "NONE")>>},
        block \in UNION {Blocks(body) : body \in BlockBodies}}

AnalysisPrograms ==
    LiteralPrograms \cup IndexPrograms \cup SetPrograms \cup RecursivePrograms
        \cup BlockPrograms

InitAnalysis ==
    /\ IdleLexer
    /\ IdleParser
    /\ input \in AnalysisPrograms
    /\ stage = [at |-> "start", error |-> ""]
    /\ interp = [pc |-> 0]

\* the number of statements analyze() has gone through
AnalyzedCount == IF lastStmt = NoStmt THEN 0 ELSE lastStmt.index

\* analyzeStmt has returned or thrown a: the k-th statement was analyzed
AnalyzeStmtReturns(a, k) ==
    /\ symbolTable' = a.st
    /\ program' = [program EXCEPT ![k] = a.node]
    /\ lastStmt' = [index |-> k, thrown |-> a.thrown, before |-> symbolTable]
    /\ stage' = CASE a.thrown = "SemanticError" ->
                        [at |-> "semantic_error", error |-> a.error]
                  [] a.thrown # "" ->
                        [at |-> "analysis_aborted", error |-> a.error]
                  [] k = Len(program) -> [at |-> "analyzed", error |-> ""]
                  [] OTHER -> [at |-> "analyzing", error |-> ""]

\* SemanticAnalyzer::analyze, one turn of its loop: for (stmt : statements)
\* analyzeStmt(stmt).  An exception ends the pass.
AnalyzeStmt ==
    /\ stage.at \in {"parsed", "analyzing"}
    /\ AnalyzedCount < Len(program)
    /\ AnalyzeStmtReturns(analyzeStmt(symbolTable, program[AnalyzedCount + 1]),
                          AnalyzedCount + 1)
    /\ UNCHANGED <<lexVars, parseStatus, blocks, input, interp>>

NextAnalysis ==
    \/ Parse
    \/ AnalyzeStmt

SpecAnalysis == InitAnalysis /\ [][NextAnalysis]_vars

\* the semantic pass has ended: it has accepted the program or thrown
AnalysisEnded == stage.at \in {"analyzed", "semantic_error", "analysis_aborted"}

\* the type of a literal
KnownType(e) == IF e.type = "NUMBER" THEN "INTEGER" ELSE "STRING"
TypesOf(es) == {KnownType(es[k]) : k \in DOMAIN es}

\* a literal whose elements, keys or values have two different types
MixedLiteral(lit) ==
    IF lit.kind = "ListLiteral" THEN Cardinality(TypesOf(lit.elements)) > 1
    ELSE \/ Cardinality({KnownType(lit.entries[k][1]) : k \in DOMAIN lit.entries}) > 1
         \/ Cardinality({KnownType(lit.entries[k][2]) : k \in DOMAIN lit.entries}) > 1

\* C22: the semantic pass rejects a list literal whose elements have two
\* different known types and a dictionary literal whose keys or whose
\* values do; a literal of one type is accepted.  For let xs = <literal>:
\* the pass ends with a SemanticError exactly when the literal is mixed,
\* and else accepts the program.
C22_MixedLiteralRejected ==
    \A lit \in ListLiterals \cup DictLiterals :
        input = LiteralProgram(lit) /\ AnalysisEnded =>
            stage.at = (IF MixedLiteral(lit) THEN "semantic_error" ELSE "analyzed")

\* C23: the semantic pass accepts set NAME[expr] = expr when NAME is a
\* list or a dictionary and the index is an integer, and rejects it when
\* NAME is neither.
C23_IndexAssignmentChecked ==
    \A init \in Initializers, v \in {Num(2), StringLit(<<"b">>)} :
        /\ input = IndexProgram(init, Num(0), v) /\ AnalysisEnded =>
              stage.at = (IF init.kind \in {"ListLiteral", "DictLiteral"}
                          THEN "analyzed" ELSE "semantic_error")
        /\ input = IndexProgram(init, StringLit(<<"a">>), v) /\ AnalysisEnded
              /\ init.kind \notin {"ListLiteral", "DictLiteral"} =>
              stage.at = "semantic_error"

-----------------------------------------------------------------------------
(* Claims about throw and try, checked under Spec *)

\* the interpretation of the program has ended
Ended == stage.at \in {"done", "runtime_error", "terminated"}

\* C21: a value raised by throw inside a try body is caught by the nearest
\* enclosing try: the rest of the try body is skipped, the value is bound
\* to the catch variable, the catch body runs and the execution goes on
\* after the statement; only a raise with no enclosing try ends the
\* interpretation.  Over the programs of TryRuns: once the interpretation
\* has ended, it has ended normally exactly when no raise was outside
\* every try, and it has printed what the language prints.
C21_ThrowCaughtByNearestTry ==
    \A r \in TryRuns :
        input = r.program /\ Ended =>
            /\ (stage.at = "done") = r.completes
            /\ interp.out = r.out

\* C27: after a call has returned, every variable its caller could read
\* reads the value it had, unless the callee assigned it with set; a
\* function's own parameter read after a nested or recursive call still
\* has the value of this invocation, so f(n - 1) * n and n * f(n - 1)
\* yield the same.  Over the programs of FrameRuns: the interpretation
\* ends normally and has printed what the language prints.
C27_CallLeavesCallersVariables ==
    \A r \in FrameRuns :
        input = r.program /\ Ended =>
            stage.at = "done" /\ interp.out = r.out

\* the messages of the interpreter's type errors
TypeErrors ==
    {"Type mismatch in binary expression",
     "Condition must evaluate to an integer",
     "Dictionary key must be a string",
     "List index must be an integer"}

\* C28: a program accepted by the parser and the semantic pass never
\* raises a runtime type error when it is executed, whatever the types of
\* the arguments passed to functions and wherever the expressions occur.
C28_AcceptedProgramRaisesNoTypeError ==
    stage.at = "runtime_error" => stage.error \notin TypeErrors

-----------------------------------------------------------------------------
(* Claims about the types of variables, checked under SpecAnalysis *)

\* the type the semantic pass infers for a value of SetValues
ValueType(e) == IF e.kind = "Literal" THEN KnownType(e) ELSE "NONE"

\* the statement analyzed last is a set of x
SetAnalyzed ==
    /\ input \in SetPrograms
    /\ lastStmt # NoStmt
    /\ input[lastStmt.index].kind = "Set"

\* the type of x before and after the statement analyzed last, and the
\* type of the value it assigns
FixedType == getSymbol(lastStmt.before, "x").type
TypeNow == getSymbol(symbolTable, "x").type
AssignedType == ValueType(input[lastStmt.index].value)

\* C24: over the let and set statements of one variable: a set whose value
\* has a type that is not NONE and differs from the variable's type that
\* is not NONE is rejected with a type mismatch; a set on a variable of
\* type NONE is accepted and the variable takes the value's type; once the
\* type is fixed no accepted statement changes it, to another type or back
\* to NONE.
C24_VariableTypeFixedOnce ==
    SetAnalyzed =>
        /\ FixedType # "NONE" /\ AssignedType # "NONE" /\ AssignedType # FixedType
              => stage.at = "semantic_error" /\ stage.error = "Type mismatch"
        /\ FixedType = "NONE"
              => lastStmt.thrown = "" /\ TypeNow = AssignedType
        /\ FixedType # "NONE" /\ lastStmt.thrown = ""
              => TypeNow = FixedType

\* C25: a function whose body calls the function itself is accepted by the
\* parser and by the semantic pass, also when the result of the recursive
\* call is an operand of an arithmetic or comparison operator, as in
\* return n * f(n - 1).
C25_RecursiveFunctionAccepted ==
    input \in RecursivePrograms =>
        stage.at \notin {"parse_error", "semantic_error", "analysis_aborted"}

-----------------------------------------------------------------------------
(* The lexer run over a text and then over the lexemes it returned          *)
(* (SpecRelex).  stage.at names the pass; input keeps the tokens of the    *)
(* first pass.                                                             *)

MaxWords == 2

\* an identifier, keywords, numbers, strings, operators, an unknown
\* character
Words ==
    {<<"a">>, <<"l", "e", "t">>, <<"t", "h", "e", "n">>,
     <<"1">>, <<"1", ".", "5">>, <<"1", "L">>,
     <<"\"", "a", "\"">>, <<"'", "a", " ", "b", "'">>, <<"\"", "\"">>,
     <<"+">>, <<">", "=">>, <<"@">>}

\* the texts joined with one space between them
RECURSIVE JoinWithSpace(_)
JoinWithSpace(texts) ==
    IF texts = << >> THEN << >>
    ELSE IF Len(texts) = 1 THEN texts[1]
    ELSE texts[1] \o <<" ">> \o JoinWithSpace(Tail(texts))

\* one line of up to MaxWords words; two lines, the second one indented
WordSources ==
    {JoinWithSpace(ws) : ws \in UNION {[1 .. n -> Words] : n \in 1 .. MaxWords}}
        \cup {w \o <<"\n", " ">> \o v : w \in Words, v \in Words}

\* the tokens that stand for no text of their own
Structural == {"INDENT", "DEDENT", "NEWLINE", "END_OF_FILE"}
NonStructural(ts) == SelectSeq(ts, LAMBDA tk : tk.type \notin Structural)

Lexemes(ts) == [k \in 1 .. Len(ts) |-> ts[k].lexeme]
TokenTypes(ts) == [k \in 1 .. Len(ts) |-> ts[k].type]

InitRelex ==
    /\ source \in WordSources
    /\ lexer = NewLexer
    /\ tokens = << >>
    /\ IdleParser
    /\ input = << >>
    /\ stage = [at |-> "first", error |-> ""]
    /\ interp = [pc |-> 0]

\* Lexer(text) for the text made of the lexemes of the tokens returned,
\* the structural ones left out, with one space between them
Relex ==
    /\ stage.at = "first"
    /\ LexFinished
    /\ source' = JoinWithSpace(Lexemes(NonStructural(tokens)))
    /\ lexer' = NewLexer
    /\ tokens' = << >>
    /\ input' = tokens
    /\ stage' = [at |-> "second", error |-> ""]
    /\ UNCHANGED <<parseVars, interp>>

NextRelex ==
    \/ GetNextToken
    \/ Relex

SpecRelex == InitRelex /\ [][NextRelex]_vars

\* C26: the lexemes of the non-structural tokens of a text, joined with a
\* space and given to the lexer again, yield token for token the
\* classification (keyword, identifier, number, string, ...) of the first
\* pass.
C26_LexingLexemesKeepsClassification ==
    stage.at = "second" /\ LexFinished =>
        TokenTypes(NonStructural(tokens)) = TokenTypes(NonStructural(input))

-----------------------------------------------------------------------------
(* Claims about the scopes of the semantic pass, checked under SpecAnalysis *)

\* C29: for any program the parser accepts, among them programs that
\* declare a variable with let inside a when branch, a while body, a match
\* case or a try body, no symbol lookup and no symbol type update of the
\* semantic pass fails with symbol-not-found.
C29_SemanticPassFindsDeclaredNames ==
    stage.at \in {"semantic_error", "analysis_aborted"}
        => stage.error # "Symbol not found"

-----------------------------------------------------------------------------
(* The parser and then the semantic pass, each as a whole, with the        *)
(* history of the bodies each pass goes through (SpecDepth).  The history  *)
(* in symbolTable is that of the pass that has just ended.                 *)

\* the table with an empty history beside it
LoggedTable(t) ==
    [scopes |-> t.scopes, currentScope |-> t.currentScope,
     nesting |-> 0, bodies |-> << >>]

InitDepth ==
    /\ IdleLexer
    /\ IdleParser
    /\ input \in AnalysisPrograms
    /\ stage = [at |-> "start", error |-> ""]
    /\ interp = [pc |-> 0]

\* what Parser(tokens).parse() leaves
ParseProgramReturns(r) ==
    /\ symbolTable' = r.st
    /\ stage' = IF r.ok THEN [at |-> "parsed", error |-> ""]
                ELSE [at |-> "parse_error", error |-> r.err]
    /\ program' = IF r.ok THEN input ELSE << >>

\* Parser(tokens).parse()
ParseProgram ==
    /\ stage.at = "start"
    /\ ParseProgramReturns(parseStmtList(LoggedTable(NewSymbolTable), input))
    /\ UNCHANGED <<lexVars, parseStatus, blocks, lastStmt, input, interp>>

\* what SemanticAnalyzer(symbolTable).analyze(program) leaves
AnalyzeReturns(a) ==
    /\ symbolTable' = a.st
    /\ program' = a.node
    /\ stage' = CASE a.thrown = "" -> [at |-> "analyzed", error |-> ""]
                  [] a.thrown = "SemanticError" ->
                         [at |-> "semantic_error", error |-> a.error]
                  [] OTHER -> [at |-> "analysis_aborted", error |-> a.error]

\* SemanticAnalyzer(symbolTable).analyze(program)
AnalyzeProgram ==
    /\ stage.at = "parsed"
    /\ AnalyzeReturns(analyze(LoggedTable(symbolTable), program))
    /\ UNCHANGED <<lexVars, parseStatus, blocks, lastStmt, input, interp>>

NextDepth ==
    \/ ParseProgram
    \/ AnalyzeProgram

SpecDepth == InitDepth /\ [][NextDepth]_vars

\* every body the pass that has just ended went through was begun at the
\* depth of its nesting
BodiesAtNestingDepth ==
    \A k \in 1 .. Len(symbolTable.bodies) :
        symbolTable.bodies[k].depth = symbolTable.bodies[k].nesting

\* C30: after parse() has returned a Program and after analyze() has
\* returned normally the current scope is the global scope (depth 0), and
\* in both passes the depth while a block body is processed is the block's
\* nesting depth in the source.
C30_ScopesBalancedOnSuccess ==
    stage.at \in {"parsed", "analyzed"}
        => /\ symbolTable.currentScope = 0
           /\ BodiesAtNestingDepth

====
